---------------------------- MODULE Spec2Model ----------------------------
(***************************************************************************)
(* Model of the drogue OPC UA agent: the event middleware (address model,  *)
(* routing tables, feature data layers, the run loop).                     *)
(*                                                                         *)
(* Option<T> is a sequence of length <= 1: <<>> is None, <<v>> is Some(v). *)
(* HashMap<K, V> is a function whose DOMAIN is the set of keys present.    *)
(***************************************************************************)
EXTENDS Integers, Sequences, FiniteSets, TLC

VARIABLES
    pc,        \* which specification's step comes next
    config,    \* routing: the rule table handed to process_update
    update,    \* routing: the update handed to process_update
    out1,      \* routing: Option<Update>, process_update(config, update)
    out2,      \* routing: Option<Update>, process_update applied to out1
    addr,      \* address: an Address, each segment a sequence of characters
    rendered,  \* address: the text `addr.to_string()`, a sequence of characters
    parsed,    \* address: Address::from_str(rendered)
    mw_config, \* data: Middleware.config, the `sources` and `sinks` tables
    batch,     \* data: the updates of the Event being processed
    delta_out, \* data: Vec<mqtt::Event> returned by FeatureDataLayer::update
    channels,  \* data: FullFeatureDataLayer.channels
    full_out,  \* data: Vec<mqtt::Event> returned by FullFeatureDataLayer::update
    contributed, \* data (history): per channel, the latest value contributed per feature
    plane,     \* run: which stream the batch being handled came from
    pending,   \* run: the outputs of the current handler not sent yet
    cloud,     \* run: the mqtt::Events sent to the `cloud` sink, in order
    commands,  \* run: the Events sent to the `commands` sink, in order
    received,  \* run: how many batches the loop has taken from its streams
    data_calls, \* run (history): how many times the data layer was called
    produced,  \* run (history): the mqtt::Events process_event returned, in order
    mq_pc,     \* mqtt: where MqttCloudConnector::run stands in its select loop
    mq_loop,   \* mqtt: where the `mqtt` poll-loop future stands
    mq_event,  \* mqtt: Option, the publish call handle_event is waiting on
    requests,  \* mqtt: the broker client's request queue
    connected, \* mqtt: whether the broker event loop holds a connection
    taken,     \* mqtt: how many events the adapter took from its event stream
    sink_open, \* mqtt: whether the sending side of the event stream is open
    pub_calls, \* mqtt (history): the calls of client.publish, in order
    sub_calls, \* mqtt (history): the calls of client.subscribe, in order
    cmd_q,     \* mqtt: the Events accepted by the command channel, in order
    cmd_open,  \* mqtt: whether the receiving side of the command channel is alive
    packet,    \* mqtt (history): Option, the ConnAck or Publish poll() returned last
    group_session, \* mqtt: Option, the message index of the loaded Megolm session
    feed,      \* mqtt: the mqtt::Events still to be offered to the event sink
    inbox,     \* mqtt: the Publish packets the broker will still deliver
    delivered, \* mqtt (history): the Publish packets poll() returned, in order
    cmd_taken, \* opcua: how many Events the middleware took from the command channel
    dispatched, \* opcua: how many Events the dispatch task took from the `commands` sink
    conn_state, \* opcua: per connection, whether do_run reached its command loop
    conn_q,    \* opcua: per connection, the Updates waiting in its command channel
    spawned,   \* opcua: how many blocking write closures command_loop has spawned
    blocking,  \* opcua: the spawned write closures that have not run yet
    writes,    \* opcua (history): per connection, the WriteValues given to session.write
    log,       \* opcua (history): the failures the command path has logged
    ev_q,      \* opcua (history): the batches the event channel accepted, in order
    ev_taken,  \* opcua: how many batches the middleware took from the event channel
    ev_open,   \* opcua: whether the event channel is open (close_channel not called)
    posts,     \* opcua: the send tasks update_sync spawned that have not sent yet
    posted,    \* opcua: how many send tasks update_sync has spawned
    run_loop,  \* opcua: per connection, how far do_run has come
    parked,    \* opcua: the send tasks parked on the full event channel, oldest first
    calls,     \* opcua (history): what the session and the server gave the callbacks
    subscriptions, \* opcua: per connection, config.subscriptions: id -> node texts
    to_subscribe   \* opcua: per connection, the subscriptions `subscribe` has yet to make

routeVars == <<config, update, out1, out2>>
addrVars == <<addr, rendered, parsed>>
dataVars == <<mw_config, batch, delta_out, channels, full_out, contributed>>
runVars == <<plane, pending, cloud, commands, received, data_calls, produced>>
mqttVars ==
    <<mq_pc, mq_loop, mq_event, requests, connected, taken, sink_open, pub_calls,
      sub_calls, cmd_q, cmd_open, packet, group_session, feed, inbox, delivered>>
cmdVars == <<dispatched, conn_state, conn_q, spawned, blocking, writes, log>>
sessVars == <<calls, subscriptions, to_subscribe>>
evVars == <<ev_q, ev_taken, ev_open, posts, posted, run_loop, parked, sessVars>>
opcVars == <<cmd_taken, cmdVars, evVars>>
vars == <<pc, routeVars, addrVars, dataVars, runVars, mqttVars, opcVars>>

RouteIdle == config = <<>> /\ update = <<>> /\ out1 = <<>> /\ out2 = <<>>
AddrIdle == addr = <<>> /\ rendered = <<>> /\ parsed = <<>>
DataIdle ==
    /\ mw_config = <<>> /\ batch = <<>> /\ delta_out = <<>>
    /\ channels = <<>> /\ full_out = <<>> /\ contributed = <<>>
RunIdle ==
    /\ plane = "" /\ pending = <<>> /\ cloud = <<>> /\ commands = <<>>
    /\ received = 0 /\ data_calls = 0 /\ produced = <<>>
MqttIdle ==
    /\ mq_pc = "" /\ mq_loop = "" /\ mq_event = <<>> /\ requests = <<>>
    /\ connected = FALSE /\ taken = 0 /\ sink_open = FALSE
    /\ pub_calls = <<>> /\ sub_calls = <<>> /\ cmd_q = <<>> /\ cmd_open = FALSE
    /\ packet = <<>> /\ group_session = <<>> /\ feed = <<>> /\ inbox = <<>>
    /\ delivered = <<>>
OpcIdle ==
    /\ cmd_taken = 0 /\ dispatched = 0 /\ conn_state = <<>> /\ conn_q = <<>>
    /\ spawned = 0 /\ blocking = {} /\ writes = <<>> /\ log = <<>>
    /\ ev_q = <<>> /\ ev_taken = 0 /\ ev_open = FALSE /\ posts = {} /\ posted = 0
    /\ run_loop = <<>> /\ parked = <<>>
    /\ calls = <<>> /\ subscriptions = <<>> /\ to_subscribe = <<>>

None == <<>>
Some(v) == <<v>>

(***************************************************************************)
(* Bounds and input sets                                                   *)
(***************************************************************************)
MaxAddrLen == 2
MaxSegLen == 2
MaxBatch == 3
MaxFullBatch == 2
MaxRunBatch == 2
MaxReceived == 2

Seg == {"a", "b"}

RECURSIVE SeqsUpTo(_, _)
SeqsUpTo(S, n) ==
    IF n = 0 THEN {<<>>}
    ELSE LET shorter == SeqsUpTo(S, n - 1)
         IN  shorter \cup {Append(s, x) : s \in {t \in shorter : Len(t) = n - 1}, x \in S}

Addresses == SeqsUpTo(Seg, MaxAddrLen)

(***************************************************************************)
(* serde_json::Value, as far as the agent looks into it.                   *)
(***************************************************************************)
JsonString(s) == [kind |-> "String", s |-> s, n |-> 0]
JsonNumber(n) == [kind |-> "Number", s |-> "", n |-> n]
JsonBool(b) == [kind |-> "Bool", s |-> IF b THEN "true" ELSE "false", n |-> 0]
JsonNull == [kind |-> "Null", s |-> "", n |-> 0]
\* An array; its elements play no part in what the agent does with it.
JsonArray == [kind |-> "Array", s |-> "", n |-> 0]
\* A number held as a float (serde_json's N::Float), named by its literal;
\* JsonNumber is a number held as an integer (N::PosInt or N::NegInt).
JsonFloat(text) == [kind |-> "Number", s |-> text, n |-> 0]
\* Value::Object: a map from keys to values.
JsonMap(fields) == [kind |-> "Object", s |-> "", n |-> 0, fields |-> fields]

as_str(v) == IF v.kind = "String" THEN Some(v.s) ELSE None

EmptyMap == <<>>

\* HashMap::extend: every pair of `other` is inserted, overwriting on conflict.
ExtendKeepingOld(m, other) ==
    [k \in DOMAIN m \cup DOMAIN other |-> IF k \in DOMAIN m THEN m[k] ELSE other[k]]

Extend(m, other) ==
    [k \in DOMAIN m \cup DOMAIN other |-> IF k \in DOMAIN other THEN other[k] ELSE m[k]]

(***************************************************************************)
(* middleware.rs: Source, Update, process_update, find                     *)
(***************************************************************************)
Source(d, c, e) == [drop |-> d, channel |-> c, extensions |-> e]

Update(a, c, v, e) == [address |-> a, channel |-> c, value |-> v, extensions |-> e]

\* &address.as_slice()[..i]
Prefix(address, i) == SubSeq(address, 1, i)

\* The loop `for i in 0..=len`: the rules of the prefixes present in the table,
\* least specific first.
RECURSIVE CollectFrom(_, _, _)
CollectFrom(cfg, address, i) ==
    IF i > Len(address) THEN <<>>
    ELSE (IF Prefix(address, i) \in DOMAIN cfg
            THEN <<cfg[Prefix(address, i)]>>
            ELSE <<>>)
         \o CollectFrom(cfg, address, i + 1)

\* The segments of an address joined with `/` into one text.
RECURSIVE JoinSegments(_)
JoinSegments(a) ==
    IF a = <<>> THEN <<>>
    ELSE IF Len(a) = 1 THEN a[1]
    ELSE a[1] \o <<"/">> \o JoinSegments(Tail(a))

\* The rules whose key, as one text, is a prefix of the text of the address,
\* shortest text first, instead of the rules of the address's slices.
CollectByText(cfg, address) ==
    LET t == JoinSegments(address)
        RECURSIVE from(_)
        from(n) ==
            IF n > Len(t) THEN <<>>
            ELSE LET ks == {p \in DOMAIN cfg : JoinSegments(p) = SubSeq(t, 1, n)}
                 IN  (IF ks = {} THEN <<>> ELSE <<cfg[CHOOSE p \in ks : TRUE]>>)
                     \o from(n + 1)
    IN  from(0)

Collect(cfg, address) == CollectFrom(cfg, address, 0)

\* The least specific override: the first Some(t) is kept.
findFirst(sources, f) ==
    LET r[i \in 0..Len(sources)] ==
            IF i = 0 THEN None
            ELSE IF r[i - 1] # None THEN r[i - 1]
            ELSE sources[i][f]
    IN  r[Len(sources)]

\* find: r starts as None and every Some(t) overwrites it.  The closure f
\* selects a field of the rule, named here by f.
find(sources, f) ==
    LET r[i \in 0..Len(sources)] ==
            IF i = 0 THEN None
            ELSE IF sources[i][f] # None THEN sources[i][f]
            ELSE r[i - 1]
    IN  r[Len(sources)]

\* `for s in sources { update.extensions.extend(s.extensions.clone()) }`
ApplyExtensions(sources, extensions) ==
    LET e[i \in 0..Len(sources)] ==
            IF i = 0 THEN extensions
            ELSE Extend(e[i - 1], sources[i].extensions)
    IN  e[Len(sources)]

\* A drop decided by any matching rule instead of the most specific one.
should_drop_any(sources) == \E i \in 1..Len(sources) : sources[i].drop = Some(TRUE)

\* `if let Some(true) = find(&sources, |source| source.drop.as_ref())`
should_drop(sources) == find(sources, "drop") = Some(TRUE)

\* The channel override taken as a prefix of the channel the update came with.
apply_channel_nested(channel, found) ==
    IF found # None THEN found[1] \o "/" \o channel ELSE channel

\* `if let Some(channel) = find(..) { update.channel = channel.to_string() }`
apply_channel(channel, found) == IF found # None THEN found[1] ELSE channel

\* A routing that also cuts the address down to the prefixes that matched.
process_update_rewriting(cfg, u) ==
    LET sources == Collect(cfg, u.address)
    IN  IF should_drop(sources) THEN None
        ELSE Some([u EXCEPT
                 !.channel = apply_channel(@, find(sources, "channel")),
                 !.extensions = ApplyExtensions(sources, @),
                 !.address = IF Len(sources) > 1 THEN Prefix(@, Len(@) - 1) ELSE @])

process_update(cfg, u) ==
    LET sources == Collect(cfg, u.address)
    IN  IF should_drop(sources) THEN None
        ELSE Some([u EXCEPT
                 !.channel = apply_channel(@, find(sources, "channel")),
                 !.extensions = ApplyExtensions(sources, @)])

(***************************************************************************)
(* Routing specification: one rule table, one update, routed once and then *)
(* once more.                                                              *)
(***************************************************************************)
OptBool == {None, Some(TRUE), Some(FALSE)}
OptChannel == {None, Some("ch-A"), Some("ch-B")}
RuleExtensions ==
    { EmptyMap,
      [k |-> JsonNumber(1)],
      [k |-> JsonNumber(2), feature |-> JsonString("temp")] }
Rules == {Source(d, c, e) : d \in OptBool, c \in OptChannel, e \in RuleExtensions}

RuleKeys == {<<>>, <<"a">>, <<"a", "b">>}
Tables == UNION {[K -> Rules] : K \in SUBSET RuleKeys}

UpdateExtensions == {EmptyMap, [k |-> JsonNumber(0)], [own |-> JsonNumber(0)]}
Updates ==
    {Update(a, "ch0", JsonNumber(5), e) : a \in Addresses, e \in UpdateExtensions}

InitRoute ==
    /\ pc = "route"
    /\ config \in Tables
    /\ update \in Updates
    /\ out1 = None
    /\ out2 = None
    /\ AddrIdle /\ DataIdle /\ RunIdle /\ MqttIdle /\ OpcIdle

RouteOnce ==
    /\ pc = "route"
    /\ out1' = process_update(config, update)
    /\ pc' = "routed"
    /\ UNCHANGED <<config, update, out2, addrVars, dataVars, runVars, mqttVars, opcVars>>

\* Option::and_then: a dropped update is not routed again.
RouteTwice ==
    /\ pc = "routed"
    /\ out2' = IF out1 = None THEN None ELSE process_update(config, out1[1])
    /\ pc' = "routed twice"
    /\ UNCHANGED <<config, update, out1, addrVars, dataVars, runVars, mqttVars, opcVars>>

NextRoute == RouteOnce \/ RouteTwice

SpecRoute == InitRoute /\ [][NextRoute]_vars

(***************************************************************************)
(* Routing specification for prefix matching: the segments are texts, so   *)
(* that one segment can be a proper prefix of another, and every rule      *)
(* leaves its own mark in the extensions of the update it is applied to.   *)
(***************************************************************************)
MaxDepth == 2
PrefixSegs == {<<"a">>, <<"b">>, <<"a", "b">>}
PrefixAddresses == SeqsUpTo(PrefixSegs, MaxDepth)
PrefixKeys ==
    {<<>>, <<<<"a">>>>, <<<<"b">>>>, <<<<"a", "b">>>>,
     <<<<"a">>, <<"b">>>>, <<<<"a">>, <<"a">>>>}

\* A name for each key, used as the extension key its rule sets.
KeyName(p) ==
    CASE p = <<>> -> "root"
      [] p = <<<<"a">>>> -> "a"
      [] p = <<<<"b">>>> -> "b"
      [] p = <<<<"a", "b">>>> -> "ab"
      [] p = <<<<"a">>, <<"b">>>> -> "a/b"
      [] p = <<<<"a">>, <<"a">>>> -> "a/a"

\* The rule of key p: `extensions: {<name>: <length of p>, "last": "<name>"}`.
MarkRule(p) ==
    Source(None, None,
           Extend((KeyName(p) :> JsonNumber(Len(p))), [last |-> JsonString(KeyName(p))]))

PrefixTables == {[p \in K |-> MarkRule(p)] : K \in SUBSET PrefixKeys}
PrefixUpdates == {Update(a, "ch0", JsonNumber(5), EmptyMap) : a \in PrefixAddresses}

InitPrefix ==
    /\ pc = "route"
    /\ config \in PrefixTables
    /\ update \in PrefixUpdates
    /\ out1 = None
    /\ out2 = None
    /\ AddrIdle /\ DataIdle /\ RunIdle /\ MqttIdle /\ OpcIdle

SpecPrefix == InitPrefix /\ [][NextRoute]_vars

(***************************************************************************)
(* middleware.rs: the textual form of an Address.  A String is a sequence  *)
(* of characters here, each character a one-letter string.                 *)
(***************************************************************************)
\* Address::from_str, the `while let Some(c) = s.next()` loop from position i.
RECURSIVE from_str_loop(_, _, _, _)
from_str_loop(s, i, paths, current) ==
    IF i > Len(s) THEN Append(paths, current)
    ELSE IF s[i] = "/" THEN from_str_loop(s, i + 1, Append(paths, current), <<>>)
    ELSE IF s[i] = "\\" THEN
        IF i + 1 <= Len(s)
        THEN from_str_loop(s, i + 2, paths, Append(current, s[i + 1]))
        ELSE from_str_loop(s, i + 1, paths, current)
    ELSE from_str_loop(s, i + 1, paths, Append(current, s[i]))

\* Address::from_str without its `s.is_empty()` early return.
from_str_unguarded(s) == from_str_loop(s, 1, <<>>, <<>>)

from_str(s) == IF s = <<>> THEN <<>> ELSE from_str_loop(s, 1, <<>>, <<>>)

\* <str as Debug>::fmt: the text in double quotes, `\` and `"` escaped.
RECURSIVE escape_debug(_)
escape_debug(s) ==
    IF s = <<>> THEN <<>>
    ELSE (IF Head(s) \in {"\\", "\""} THEN <<"\\", Head(s)>> ELSE <<Head(s)>>)
         \o escape_debug(Tail(s))

debug_str(s) == <<"\"">> \o escape_debug(s) \o <<"\"">>

\* <Vec<String> as Debug>::fmt: `[`, the entries separated by `, `, `]`.
RECURSIVE debug_entries(_)
debug_entries(v) ==
    IF v = <<>> THEN <<>>
    ELSE debug_str(Head(v))
         \o (IF Tail(v) = <<>> THEN <<>> ELSE <<",", " ">> \o debug_entries(Tail(v)))

debug_vec(v) == <<"[">> \o debug_entries(v) \o <<"]">>

\* <Address as Display>::fmt is `self.0.fmt(f)`: Vec<String> has no Display, so
\* the call resolves to its Debug.
display(a) == debug_vec(a)

AddrChars == {"a", "/", "\\"}
Segments == SeqsUpTo(AddrChars, MaxSegLen)
TextAddresses == SeqsUpTo(Segments, MaxAddrLen)

InitAddr ==
    /\ pc = "render"
    /\ addr \in TextAddresses
    /\ rendered = <<>>
    /\ parsed = <<>>
    /\ RouteIdle /\ DataIdle /\ RunIdle /\ MqttIdle /\ OpcIdle

Render ==
    /\ pc = "render"
    /\ rendered' = display(addr)
    /\ pc' = "rendered"
    /\ UNCHANGED <<addr, parsed, routeVars, dataVars, runVars, mqttVars, opcVars>>

Parse ==
    /\ pc = "rendered"
    /\ parsed' = from_str(rendered)
    /\ pc' = "parsed"
    /\ UNCHANGED <<addr, rendered, routeVars, dataVars, runVars, mqttVars, opcVars>>

NextAddr == Render \/ Parse

SpecAddr == InitAddr /\ [][NextAddr]_vars

\* C5: parsing the rendered text of an address gives the address again.
C5_ParseRenderRoundTrip == pc = "parsed" => parsed = addr

\* Parsing any text: the texts are all strings over a plain character, the
\* separator and the escape character, up to MaxText characters.
MaxText == 4
Texts == SeqsUpTo(AddrChars, MaxText)

InitText ==
    /\ pc = "text"
    /\ rendered \in Texts
    /\ addr = <<>>
    /\ parsed = <<>>
    /\ RouteIdle /\ DataIdle /\ RunIdle /\ MqttIdle /\ OpcIdle

\* Address::from_str(text): the error type is Infallible, the result is Ok.
ParseText ==
    /\ pc = "text"
    /\ parsed' = from_str(rendered)
    /\ pc' = "text parsed"
    /\ UNCHANGED <<addr, rendered, routeVars, dataVars, runVars, mqttVars, opcVars>>

NextText == ParseText

SpecText == InitText /\ [][NextText]_vars

(***************************************************************************)
(* data.rs, data/full.rs: the feature data layers                          *)
(***************************************************************************)
\* HashMap::insert
Insert(m, k, v) == [x \in DOMAIN m \cup {k} |-> IF x = k THEN v ELSE m[x]]

MqttEvent(c, p) == [channel |-> c, payload |-> p]

\* The feature taken from the extension only, with no fallback to the address.
feature_of_extension_only(u) ==
    IF "feature" \in DOMAIN u.extensions THEN as_str(u.extensions["feature"]) ELSE None

\* extensions.get("feature").and_then(as_str).or_else(|| address.last())
feature_of(u) ==
    LET f == IF "feature" \in DOMAIN u.extensions
               THEN as_str(u.extensions["feature"])
               ELSE None
    IN  IF f # None THEN f
        ELSE IF u.address # <<>> THEN Some(u.address[Len(u.address)])
        ELSE None

\* The Occupied arm replacing the channel's event instead of inserting into it.
compact_one_replacing(compacted, u) ==
    LET feature == feature_of(u)
    IN  IF feature = None THEN compacted
        ELSE Insert(compacted, u.channel,
                    MqttEvent(u.channel, [features |-> Insert(EmptyMap, feature[1], u.value)]))

\* One turn of the loop of FeatureDataLayer::update.
compact_one(compacted, u) ==
    LET feature == feature_of(u)
    IN  IF feature = None THEN compacted
        ELSE IF u.channel \notin DOMAIN compacted
        THEN Insert(compacted, u.channel,
                    MqttEvent(u.channel, [features |-> Insert(EmptyMap, feature[1], u.value)]))
        ELSE [compacted EXCEPT ![u.channel].payload.features = Insert(@, feature[1], u.value)]

\* An event per update instead of one per channel.
compact_per_update(updates) ==
    LET c[i \in 0..Len(updates)] ==
            IF i = 0 THEN EmptyMap
            ELSE IF feature_of(updates[i]) = None THEN c[i - 1]
            ELSE Insert(c[i - 1], i,
                        MqttEvent(updates[i].channel,
                                  [features |-> Insert(EmptyMap, feature_of(updates[i])[1],
                                                       updates[i].value)]))
    IN  c[Len(updates)]

\* `compacted` after the loop of FeatureDataLayer::update.
compact(updates) ==
    LET c[i \in 0..Len(updates)] ==
            IF i = 0 THEN EmptyMap ELSE compact_one(c[i - 1], updates[i])
    IN  c[Len(updates)]

\* HashMap::into_values / HashSet::into_iter: the entries in any order.
Orders(S) == {o \in [1..Cardinality(S) -> S] : \A i, j \in DOMAIN o : o[i] = o[j] => i = j}

into_values(m) == {[i \in DOMAIN o |-> m[o[i]]] : o \in Orders(DOMAIN m)}

\* The surviving updates collected in reverse.
RECURSIVE filter_map_process_update_reversed(_, _)
filter_map_process_update_reversed(table, updates) ==
    IF updates = <<>> THEN <<>>
    ELSE filter_map_process_update_reversed(table, Tail(updates))
         \o process_update(table, Head(updates))

\* `.filter_map(|u| Self::process_update(table, u))`
RECURSIVE filter_map_process_update(_, _)
filter_map_process_update(table, updates) ==
    IF updates = <<>> THEN <<>>
    ELSE process_update(table, Head(updates))
         \o filter_map_process_update(table, Tail(updates))

\* The possible results of Middleware::process_event.
process_event(table, event) == into_values(compact(filter_map_process_update(table, event)))

\* The Occupied arm replacing the retained features instead of inserting.
full_one_replacing(st, u) ==
    LET feature == feature_of(u)
    IN  IF feature = None THEN st
        ELSE [channels |-> Insert(st.channels, u.channel,
                                  [features |-> Insert(EmptyMap, feature[1], u.value)]),
              touched |-> st.touched \cup {u.channel}]

\* One turn of the loop of FullFeatureDataLayer::update: `channels` is
\* self.channels, `touched` the local HashSet.
full_one(st, u) ==
    LET feature == feature_of(u)
    IN  IF feature = None THEN st
        ELSE [channels |->
                IF u.channel \notin DOMAIN st.channels
                THEN Insert(st.channels, u.channel,
                            [features |-> Insert(EmptyMap, feature[1], u.value)])
                ELSE [st.channels EXCEPT ![u.channel].features = Insert(@, feature[1], u.value)],
              touched |-> st.touched \cup {u.channel}]

full_loop(chans, updates) ==
    LET c[i \in 0..Len(updates)] ==
            IF i = 0 THEN [channels |-> chans, touched |-> {}]
            ELSE full_one(c[i - 1], updates[i])
    IN  c[Len(updates)]

\* An event for every retained channel, touched by the batch or not.
full_result_every_channel(st) ==
    {[i \in DOMAIN o |-> MqttEvent(o[i], st.channels[o[i]])] : o \in Orders(DOMAIN st.channels)}

\* The possible results of the final map over the touched channels; the payload
\* is the serialized Channel, {"features": {...}}.
full_result(st) ==
    {[i \in DOMAIN o |-> MqttEvent(o[i], st.channels[o[i]])] :
        o \in Orders({c \in st.touched : c \in DOMAIN st.channels})}

(***************************************************************************)
(* One batch specification: one Event goes through process_event (the      *)
(* delta layer behind the `sources` table) and, routed the same way,       *)
(* through a new FullFeatureDataLayer.                                     *)
(***************************************************************************)
DataAddresses == {<<>>, <<"a">>, <<"b">>, <<"a", "">>}
DataExtensions == {EmptyMap, [feature |-> JsonString("temp")], [feature |-> JsonNumber(7)]}
DataShapes == [address : DataAddresses, extensions : DataExtensions]
\* The i-th update of a batch carries the value i: the value found in a payload
\* tells which update it came from.
DataBatches ==
    UNION {{[i \in 1..n |-> Update(sh[i].address, "ch0", JsonNumber(i), sh[i].extensions)] :
                sh \in [1..n -> DataShapes]} : n \in 0..MaxBatch}

DataRules ==
    { Source(Some(TRUE), None, EmptyMap),
      Source(None, Some("ch1"), EmptyMap),
      Source(None, None, [feature |-> JsonString("temp")]),
      Source(None, None, [feature |-> JsonNumber(7)]) }
DataTables == {EmptyMap} \cup {Insert(EmptyMap, <<"a">>, r) : r \in DataRules}

InitBatch ==
    /\ pc = "event"
    /\ mw_config \in [sources : DataTables, sinks : {EmptyMap}]
    /\ batch \in DataBatches
    /\ delta_out = <<>>
    /\ channels = EmptyMap
    /\ full_out = <<>>
    /\ contributed = EmptyMap
    /\ RouteIdle /\ AddrIdle /\ RunIdle /\ MqttIdle /\ OpcIdle

\* Middleware::process_event
ProcessEvent ==
    /\ pc = "event"
    /\ delta_out' \in process_event(mw_config.sources, batch)
    /\ pc' = "delta done"
    /\ UNCHANGED <<mw_config, batch, channels, full_out, contributed, routeVars, addrVars, runVars, mqttVars, opcVars>>

\* FullFeatureDataLayer::update on the routed updates of the same Event
FullUpdate ==
    /\ pc = "delta done"
    /\ LET st == full_loop(channels, filter_map_process_update(mw_config.sources, batch))
       IN  /\ channels' = st.channels
           /\ full_out' \in full_result(st)
    /\ pc' = "full done"
    /\ UNCHANGED <<mw_config, batch, delta_out, contributed, routeVars, addrVars, runVars, mqttVars, opcVars>>

NextBatch == ProcessEvent \/ FullUpdate

SpecBatch == InitBatch /\ [][NextBatch]_vars

(***************************************************************************)
(* Full-state specification: a FullFeatureDataLayer is fed one batch of     *)
(* routed updates after the other; its caller sends the returned events    *)
(* and lets go of the batch.                                               *)
(***************************************************************************)
FullUpdates ==
    {Update(a, c, JsonNumber(n), EmptyMap) :
        a \in {<<>>, <<"a">>, <<"b">>}, c \in {"ch0", "ch1"}, n \in {1, 2}}
FullBatches == SeqsUpTo(FullUpdates, MaxFullBatch)

\* History: `latest` after the updates of one more batch.  For each channel and
\* feature the value of the last update of the batch naming them, and the value
\* held before when the batch has none.
Contribute(latest, b) ==
    LET name(i) == IF "feature" \in DOMAIN b[i].extensions
                        /\ b[i].extensions["feature"].kind = "String"
                   THEN {b[i].extensions["feature"].s}
                   ELSE IF Len(b[i].address) > 0 THEN {b[i].address[Len(b[i].address)]}
                   ELSE {}
        hits(c, f) == {i \in 1..Len(b) : b[i].channel = c /\ name(i) = {f}}
        named(c) == UNION {name(i) : i \in {j \in 1..Len(b) : b[j].channel = c}}
        before(c) == IF c \in DOMAIN latest THEN DOMAIN latest[c] ELSE {}
        chans == DOMAIN latest \cup {b[i].channel : i \in {j \in 1..Len(b) : name(j) # {}}}
    IN  [c \in chans |->
            [f \in before(c) \cup named(c) |->
                IF hits(c, f) # {}
                THEN b[CHOOSE i \in hits(c, f) : \A j \in hits(c, f) : j <= i].value
                ELSE latest[c][f]]]

InitFull ==
    /\ pc = "idle"
    /\ mw_config = <<>>
    /\ batch = <<>>
    /\ delta_out = <<>>
    /\ channels = EmptyMap
    /\ full_out = <<>>
    /\ contributed = EmptyMap
    /\ RouteIdle /\ AddrIdle /\ RunIdle /\ MqttIdle /\ OpcIdle

\* FullFeatureDataLayer::update
FullFeed ==
    /\ pc = "idle"
    /\ \E b \in FullBatches :
          LET st == full_loop(channels, b)
          IN  /\ batch' = b
              /\ channels' = st.channels
              /\ full_out' \in full_result(st)
              /\ contributed' = Contribute(contributed, b)
    /\ pc' = "emitted"
    /\ UNCHANGED <<mw_config, delta_out, routeVars, addrVars, runVars, mqttVars, opcVars>>

\* The caller has sent the returned events; the batch is gone.
FullRelease ==
    /\ pc = "emitted"
    /\ batch' = <<>>
    /\ full_out' = <<>>
    /\ pc' = "idle"
    /\ UNCHANGED <<mw_config, delta_out, channels, contributed, routeVars, addrVars, runVars, mqttVars, opcVars>>

NextFull == FullFeed \/ FullRelease

SpecFull == InitFull /\ [][NextFull]_vars

(***************************************************************************)
(* Two modes specification: the same batches of routed updates are given,  *)
(* one after the other, to a FeatureDataLayer and to a                     *)
(* FullFeatureDataLayer that starts empty.                                 *)
(***************************************************************************)
MaxModeCalls == 2

InitModes ==
    /\ pc = "idle"
    /\ mw_config = <<>>
    /\ batch = <<>>
    /\ delta_out = <<>>
    /\ channels = EmptyMap
    /\ full_out = <<>>
    /\ contributed = EmptyMap
    /\ RouteIdle /\ AddrIdle /\ RunIdle /\ MqttIdle /\ OpcIdle

\* FeatureDataLayer::update and FullFeatureDataLayer::update on one batch
ModesUpdate ==
    /\ pc = "idle"
    /\ data_calls < MaxModeCalls
    /\ \E b \in FullBatches :
          LET st == full_loop(channels, b)
          IN  /\ batch' = b
              /\ delta_out' \in into_values(compact(b))
              /\ channels' = st.channels
              /\ full_out' \in full_result(st)
    /\ data_calls' = data_calls + 1
    /\ pc' = "emitted"
    /\ UNCHANGED <<mw_config, contributed, plane, pending, cloud, commands, received, produced,
                   routeVars, addrVars, mqttVars, opcVars>>

\* The caller has sent the returned events; the batch is gone.
ModesRelease ==
    /\ pc = "emitted"
    /\ batch' = <<>>
    /\ delta_out' = <<>>
    /\ full_out' = <<>>
    /\ pc' = "idle"
    /\ UNCHANGED <<mw_config, channels, contributed, runVars, routeVars, addrVars, mqttVars, opcVars>>

NextModes == ModesUpdate \/ ModesRelease

SpecModes == InitModes /\ [][NextModes]_vars

(***************************************************************************)
(* middleware.rs: Middleware::run.  One action per turn of the loop up to  *)
(* its next suspension point: a batch taken from a stream and processed,   *)
(* one send to a sink, a stream found closed.                              *)
(***************************************************************************)
Event(updates) == [updates |-> updates]

\* The `sources` table applied to a command.
process_command_by_sources(cfg, command) ==
    <<Event(filter_map_process_update(cfg.sources, command.updates))>>

\* Middleware::process_command: one Event with the updates the sinks table lets through.
process_command(cfg, command) ==
    <<Event(filter_map_process_update(cfg.sinks, command.updates))>>

RunUpdates == {Update(a, "ch0", JsonNumber(1), EmptyMap) : a \in {<<"a">>, <<"b">>}}
RunBatches == SeqsUpTo(RunUpdates, MaxRunBatch)
RunTables ==
    { EmptyMap,
      Insert(EmptyMap, <<"a">>, Source(Some(TRUE), None, EmptyMap)),
      Insert(EmptyMap, <<"a">>, Source(None, Some("ch1"), [k |-> JsonNumber(1)])) }

InitRun ==
    /\ pc = "select"
    /\ mw_config \in [sources : RunTables, sinks : RunTables]
    /\ batch = <<>>
    /\ plane = ""
    /\ pending = <<>>
    /\ cloud = <<>>
    /\ commands = <<>>
    /\ received = 0
    /\ data_calls = 0
    /\ produced = <<>>
    /\ delta_out = <<>> /\ channels = <<>> /\ full_out = <<>> /\ contributed = <<>>
    /\ RouteIdle /\ AddrIdle /\ MqttIdle /\ OpcIdle

runFrame ==
    <<mw_config, delta_out, channels, full_out, contributed, routeVars, addrVars, mqttVars, opcVars>>

\* `event = events.next()` gives Some(event): process_event, up to the first send.
RecvEvent ==
    /\ pc = "select"
    /\ received < MaxReceived
    /\ \E b \in RunBatches :
          /\ batch' = b
          /\ pending' \in process_event(mw_config.sources, b)
    /\ plane' = "events"
    /\ data_calls' = data_calls + 1
    /\ produced' = produced \o pending'
    /\ received' = received + 1
    /\ pc' = IF pending' = <<>> THEN "select" ELSE "handle_event"
    /\ UNCHANGED <<cloud, commands, runFrame>>

\* A send that loses the event.
CloudSendLosing ==
    /\ pc = "handle_event"
    /\ pending' = Tail(pending)
    /\ pc' = IF pending' = <<>> THEN "select" ELSE "handle_event"
    /\ UNCHANGED <<batch, plane, cloud, commands, received, data_calls, produced, runFrame>>

\* A send after which the loop goes back to its select whatever is left.
CloudSendYielding ==
    /\ pc = "handle_event"
    /\ cloud' = Append(cloud, Head(pending))
    /\ pending' = Tail(pending)
    /\ pc' = "select"
    /\ UNCHANGED <<batch, plane, commands, received, data_calls, produced, runFrame>>

\* `cloud.send(event).await` succeeds.
CloudSend ==
    /\ pc = "handle_event"
    /\ cloud' = Append(cloud, Head(pending))
    /\ pending' = Tail(pending)
    /\ pc' = IF pending' = <<>> THEN "select" ELSE "handle_event"
    /\ UNCHANGED <<batch, plane, commands, received, data_calls, produced, runFrame>>

\* `cloud.send(event).await?` fails: run returns the error.
CloudSendErr ==
    /\ pc = "handle_event"
    /\ pc' = "failed"
    /\ UNCHANGED <<batch, plane, pending, cloud, commands, received, data_calls, produced, runFrame>>

\* `command = command_stream.next()` gives Some(command): process_command.
RecvCommand ==
    /\ pc = "select"
    /\ received < MaxReceived
    /\ \E b \in RunBatches :
          /\ batch' = b
          /\ pending' = process_command(mw_config, Event(b))
    /\ plane' = "command_stream"
    /\ received' = received + 1
    /\ pc' = "handle_command"
    /\ UNCHANGED <<cloud, commands, data_calls, produced, runFrame>>

\* `agent.send(event).await` succeeds.
DeviceSend ==
    /\ pc = "handle_command"
    /\ commands' = Append(commands, Head(pending))
    /\ pending' = Tail(pending)
    /\ pc' = IF pending' = <<>> THEN "select" ELSE "handle_command"
    /\ UNCHANGED <<batch, plane, cloud, received, data_calls, produced, runFrame>>

\* `agent.send(event).await?` fails: run returns the error.
DeviceSendErr ==
    /\ pc = "handle_command"
    /\ pc' = "failed"
    /\ UNCHANGED <<batch, plane, pending, cloud, commands, received, data_calls, produced, runFrame>>

\* `events.next()` gives None: break.
EventsClosed ==
    /\ pc = "select"
    /\ pc' = "exited"
    /\ plane' = "events"
    /\ UNCHANGED <<batch, pending, cloud, commands, received, data_calls, produced, runFrame>>

\* `command_stream.next()` gives None: break.
CommandsClosed ==
    /\ pc = "select"
    /\ pc' = "exited"
    /\ plane' = "command_stream"
    /\ UNCHANGED <<batch, pending, cloud, commands, received, data_calls, produced, runFrame>>

NextRun ==
    \/ RecvEvent \/ CloudSend \/ CloudSendErr
    \/ RecvCommand \/ DeviceSend \/ DeviceSendErr
    \/ EventsClosed \/ CommandsClosed

SpecRun == InitRun /\ [][NextRun]_vars

(***************************************************************************)
(* mqtt.rs: MqttCloudConnector::run.  The task selects between its event   *)
(* stream and the `mqtt` future, the loop around event_loop.poll().  While *)
(* the body of a select arm is waiting, the other future is not polled.    *)
(* The event stream is the receiving half of an unbounded channel: its     *)
(* content is what `cloud` holds beyond the first `taken` entries.         *)
(***************************************************************************)
ReqCap == 10
CmdCap == 1000

AtMostOnce == "AtMostOnce"

\* serde_json::to_string of a number, of a string without characters to
\* escape, and of a Value of one of these kinds.
Digit(n) == <<"0", "1", "2", "3", "4", "5", "6", "7", "8", "9">>[n + 1]

RECURSIVE number_to_string(_)
number_to_string(n) ==
    IF n < 10 THEN Digit(n) ELSE number_to_string(n \div 10) \o Digit(n % 10)

quoted(s) == "\"" \o s \o "\""

value_to_string(v) == IF v.kind = "String" THEN quoted(v.s) ELSE number_to_string(v.n)

\* The keys of the objects serialized here, in the order of serde_json's Map.
SortedKeys == <<"a", "b", "i=85", "ns=2;s=Pump">>

RECURSIVE entries_to_string(_, _, _)
entries_to_string(m, i, first) ==
    IF i > Len(SortedKeys) THEN ""
    ELSE IF SortedKeys[i] \in DOMAIN m
    THEN (IF first THEN "" ELSE ",")
             \o quoted(SortedKeys[i]) \o ":" \o value_to_string(m[SortedKeys[i]])
             \o entries_to_string(m, i + 1, FALSE)
    ELSE entries_to_string(m, i + 1, first)

\* The payload serialized without its `features` wrapper.
to_string_unwrapped(payload) == "{" \o entries_to_string(payload.features, 1, TRUE) \o "}"

\* serde_json::to_string(&event.payload), the payload being {"features": {..}}
to_string(payload) ==
    "{" \o quoted("features") \o ":{" \o entries_to_string(payload.features, 1, TRUE) \o "}}"

\* Vec<u8>: the bytes of `text`, or the Megolm message of `text` at a ratchet index.
Bytes(cipher, text, index) == [cipher |-> cipher, text |-> text, index |-> index]

\* MqttCloudConnector::encrypt: the bytes sent and the session afterwards.
encrypt(session, payload) ==
    IF session # None
    THEN [bytes |-> Bytes(TRUE, payload, session[1]), session |-> Some(session[1] + 1)]
    ELSE [bytes |-> Bytes(FALSE, payload, 0), session |-> session]

\* The requests of the broker client.
PublishRequest(topic, qos, retain, payload) ==
    [type |-> "Publish", topic |-> topic, qos |-> qos, retain |-> retain, payload |-> payload]

SubscribeRequest(topic, qos) ==
    [type |-> "Subscribe", topic |-> topic, qos |-> qos, retain |-> FALSE,
     payload |-> Bytes(FALSE, "", 0)]

\* What event_loop.poll() returns.
Packet(type, session_present, code, topic, payload) ==
    [type |-> type, session_present |-> session_present, code |-> code,
     topic |-> topic, payload |-> payload]

NoBody == [json |-> "invalid", fields |-> EmptyMap]
ConnAck(session_present, code) == Packet("ConnAck", session_present, code, "", NoBody)
Publish(topic, payload) == Packet("Publish", FALSE, "", topic, payload)

\* The payload of an incoming Publish: a JSON object, or bytes that are no JSON.
JsonObject(fields) == [json |-> "object", fields |-> fields]

WriteCommand(connection, value, node_id) ==
    [connection |-> connection, value |-> value, node_id |-> node_id]

\* A parser that asks for `connection` only.
from_slice_lenient(payload) ==
    IF /\ payload.json = "object"
       /\ "connection" \in DOMAIN payload.fields
       /\ payload.fields["connection"].kind = "String"
    THEN Some(WriteCommand(payload.fields["connection"].s,
                           IF "value" \in DOMAIN payload.fields
                           THEN payload.fields["value"] ELSE JsonNumber(0),
                           IF "nodeId" \in DOMAIN payload.fields
                           THEN payload.fields["nodeId"].s ELSE ""))
    ELSE None

\* serde_json::from_slice::<WriteCommand>: the derived, camelCase deserializer.
from_slice(payload) ==
    IF /\ payload.json = "object"
       /\ {"connection", "value", "nodeId"} \subseteq DOMAIN payload.fields
       /\ payload.fields["connection"].kind = "String"
       /\ payload.fields["nodeId"].kind = "String"
    THEN Some(WriteCommand(payload.fields["connection"].s,
                           payload.fields["value"],
                           payload.fields["nodeId"].s))
    ELSE None

\* MqttCloudConnector::handle_command up to its send: Option, the Event to send.
handle_command(publish) ==
    IF publish.topic = "command/inbox//write"
    THEN LET command == from_slice(publish.payload)
         IN  IF command = None THEN None
             ELSE Some(Event(<<Update(<<"cloud", "commands", command[1].connection>>,
                                      command[1].connection,
                                      command[1].value,
                                      [nodeId |-> JsonString(command[1].node_id)])>>))
    ELSE None

MaxFeed == 2
MaxSubscribes == 2

MqttEvents ==
    { MqttEvent("ch0", [features |-> [a |-> JsonNumber(1)]]),
      MqttEvent("ch1", [features |-> [a |-> JsonNumber(12), b |-> JsonString("x")]]) }

MqttFeeds == SeqsUpTo(MqttEvents, MaxFeed)

WriteTopic == "command/inbox//write"

GoodPayload ==
    JsonObject([connection |-> JsonString("plc"), value |-> JsonNumber(1),
                nodeId |-> JsonString("n1")])

\* Well-formed commands, one of them with a field too many; a command with the
\* key `node_id`, one without `value`, bytes that are no JSON; and a
\* well-formed command on another topic.
Publishes ==
    { Publish(WriteTopic, GoodPayload),
      Publish(WriteTopic,
              JsonObject([connection |-> JsonString("plc2"), value |-> JsonString("x"),
                          nodeId |-> JsonString("n2"), extra |-> JsonNumber(0)])),
      Publish(WriteTopic,
              JsonObject([connection |-> JsonString("plc"), value |-> JsonNumber(1),
                          node_id |-> JsonString("n1")])),
      Publish(WriteTopic,
              JsonObject([connection |-> JsonString("plc"), nodeId |-> JsonString("n1")])),
      Publish(WriteTopic, NoBody),
      Publish("command/inbox//write/x", GoodPayload) }

\* What the broker delivers: nothing, one Publish, or a well-formed command
\* after a Publish that is dropped or one that is forwarded.
Inboxes ==
    {<<>>} \cup {<<p>> : p \in Publishes}
           \cup {<<p, Publish(WriteTopic, GoodPayload)>> :
                    p \in {Publish(WriteTopic, NoBody), Publish(WriteTopic, GoodPayload)}}

ConnectReturnCodes == {"Success", "ServiceUnavailable"}

MqttRunning ==
    /\ mq_pc = "select" /\ mq_loop = "poll" /\ mq_event = None
    /\ requests = <<>> /\ connected = FALSE /\ taken = 0 /\ sink_open = TRUE
    /\ pub_calls = <<>> /\ sub_calls = <<>> /\ cmd_q = <<>> /\ cmd_open = TRUE
    /\ packet = None /\ delivered = <<>>

InitMqtt ==
    /\ pc = "mqtt"
    /\ MqttRunning
    /\ group_session \in {None, Some(0)}
    /\ feed \in MqttFeeds
    /\ inbox \in Inboxes
    /\ Len(feed) + Len(inbox) <= MaxFeed
    /\ RouteIdle /\ AddrIdle /\ DataIdle /\ RunIdle /\ OpcIdle

mqttFrame ==
    <<pc, routeVars, addrVars, dataVars, plane, pending, commands, received, data_calls,
      produced, opcVars>>

\* A live sender puts an event into the event sink; the channel is unbounded.
SinkSend ==
    /\ sink_open /\ feed # <<>>
    /\ mq_pc \in {"select", "publish"}
    /\ cloud' = Append(cloud, Head(feed))
    /\ feed' = Tail(feed)
    /\ UNCHANGED <<mq_pc, mq_loop, mq_event, requests, connected, taken, sink_open, pub_calls,
                   sub_calls, cmd_q, cmd_open, packet, group_session, inbox, delivered, mqttFrame>>

\* The other side drops the event sink.
SinkClose ==
    /\ sink_open
    /\ sink_open' = FALSE
    /\ UNCHANGED <<cloud, mq_pc, mq_loop, mq_event, requests, connected, taken, pub_calls,
                   sub_calls, cmd_q, cmd_open, packet, group_session, feed, inbox, delivered, mqttFrame>>

\* The other side drops the command stream.
CommandsDropped ==
    /\ cmd_open
    /\ cmd_open' = FALSE
    /\ UNCHANGED <<cloud, mq_pc, mq_loop, mq_event, requests, connected, taken, sink_open,
                   pub_calls, sub_calls, cmd_q, packet, group_session, feed, inbox, delivered, mqttFrame>>

\* An event taken from the back of the stream.
TakeEventNewestFirst ==
    /\ mq_pc = "select"
    /\ taken < Len(cloud)
    /\ LET event == cloud[Len(cloud) - taken]
           sealed == encrypt(group_session, to_string(event.payload))
           call == PublishRequest(event.channel, AtMostOnce, FALSE, sealed.bytes)
       IN  /\ mq_event' = Some(call)
           /\ pub_calls' = Append(pub_calls, call)
           /\ group_session' = sealed.session
    /\ taken' = taken + 1
    /\ mq_pc' = "publish"
    /\ UNCHANGED <<cloud, mq_loop, requests, connected, sink_open, sub_calls, cmd_q, cmd_open,
                   packet, feed, inbox, delivered, mqttFrame>>

\* `stream.next()` gives Some(event): handle_event serializes the payload,
\* passes it through the codec and calls client.publish.
TakeEvent ==
    /\ mq_pc = "select"
    /\ taken < Len(cloud)
    /\ LET event == cloud[taken + 1]
           sealed == encrypt(group_session, to_string(event.payload))
           call == PublishRequest(event.channel, AtMostOnce, FALSE, sealed.bytes)
       IN  /\ mq_event' = Some(call)
           /\ pub_calls' = Append(pub_calls, call)
           /\ group_session' = sealed.session
    /\ taken' = taken + 1
    /\ mq_pc' = "publish"
    /\ UNCHANGED <<cloud, mq_loop, requests, connected, sink_open, sub_calls, cmd_q, cmd_open,
                   packet, feed, inbox, delivered, mqttFrame>>

\* `client.publish(..).await` returns Ok: the request queue had room.
PublishDone ==
    /\ mq_pc = "publish"
    /\ Len(requests) < ReqCap
    /\ requests' = Append(requests, mq_event[1])
    /\ mq_event' = None
    /\ mq_pc' = "select"
    /\ UNCHANGED <<cloud, mq_loop, connected, taken, sink_open, pub_calls, sub_calls, cmd_q,
                   cmd_open, packet, group_session, feed, inbox, delivered, mqttFrame>>

\* `client.publish(..).await?` returns Err: run returns the error.
PublishErr ==
    /\ mq_pc = "publish"
    /\ mq_event' = None
    /\ mq_pc' = "failed"
    /\ UNCHANGED <<cloud, mq_loop, requests, connected, taken, sink_open, pub_calls, sub_calls,
                   cmd_q, cmd_open, packet, group_session, feed, inbox, delivered, mqttFrame>>

\* `stream.next()` gives None: the stream is empty and its sender is gone.
StreamEnded ==
    /\ mq_pc = "select"
    /\ taken = Len(cloud) /\ ~sink_open
    /\ mq_pc' = "ended"
    /\ UNCHANGED <<cloud, mq_loop, mq_event, requests, connected, taken, sink_open, pub_calls,
                   sub_calls, cmd_q, cmd_open, packet, group_session, feed, inbox, delivered, mqttFrame>>

\* The `mqtt` future is polled by the select only.
Polling == mq_pc = "select" /\ mq_loop = "poll"

\* A ConnAck that is never answered with a subscribe.
PollConnAckSilent ==
    /\ Polling /\ ~connected
    /\ \E sp \in BOOLEAN, code \in ConnectReturnCodes : packet' = Some(ConnAck(sp, code))
    /\ connected' = TRUE
    /\ UNCHANGED <<cloud, mq_pc, mq_loop, mq_event, requests, taken, sink_open, pub_calls,
                   sub_calls, cmd_q, cmd_open, group_session, feed, inbox, delivered, mqttFrame>>

\* poll() gives a ConnAck; without a session and with code Success the arm
\* calls client.subscribe.
PollConnAck ==
    /\ Polling /\ ~connected
    /\ \E sp \in BOOLEAN, code \in ConnectReturnCodes :
          /\ packet' = Some(ConnAck(sp, code))
          /\ IF ~sp /\ code = "Success"
             THEN /\ Len(sub_calls) < MaxSubscribes
                  /\ sub_calls' = Append(sub_calls, SubscribeRequest("command/inbox//#", AtMostOnce))
                  /\ mq_loop' = "subscribe"
             ELSE UNCHANGED <<sub_calls, mq_loop>>
    /\ connected' = TRUE
    /\ UNCHANGED <<cloud, mq_pc, mq_event, requests, taken, sink_open, pub_calls, cmd_q,
                   cmd_open, group_session, feed, inbox, delivered, mqttFrame>>

\* `client.subscribe(..).await` returns Ok: the request queue had room.
SubscribeDone ==
    /\ mq_pc = "select" /\ mq_loop = "subscribe"
    /\ Len(requests) < ReqCap
    /\ requests' = Append(requests, sub_calls[Len(sub_calls)])
    /\ mq_loop' = "poll"
    /\ UNCHANGED <<cloud, mq_pc, mq_event, connected, taken, sink_open, pub_calls, sub_calls,
                   cmd_q, cmd_open, packet, group_session, feed, inbox, delivered, mqttFrame>>

\* `client.subscribe(..).await` returns Err: logged, the loop goes on.
SubscribeErr ==
    /\ mq_pc = "select" /\ mq_loop = "subscribe"
    /\ mq_loop' = "poll"
    /\ UNCHANGED <<cloud, mq_pc, mq_event, requests, connected, taken, sink_open, pub_calls,
                   sub_calls, cmd_q, cmd_open, packet, group_session, feed, inbox, delivered, mqttFrame>>

\* poll() gives an incoming Publish: handle_command.  Its send returns at once:
\* Ok when the command channel has room, Err (logged) when the receiver is gone.
PollPublish ==
    /\ Polling /\ connected
    /\ inbox # <<>>
    /\ Len(cmd_q) - cmd_taken < CmdCap
    /\ packet' = Some(Head(inbox))
    /\ delivered' = Append(delivered, Head(inbox))
    /\ inbox' = Tail(inbox)
    /\ cmd_q' = IF handle_command(Head(inbox)) # None /\ cmd_open
                 THEN Append(cmd_q, handle_command(Head(inbox))[1])
                 ELSE cmd_q
    /\ UNCHANGED <<cloud, mq_pc, mq_loop, mq_event, requests, connected, taken, sink_open,
                   pub_calls, sub_calls, cmd_open, group_session, feed, mqttFrame>>

\* poll() gives Outgoing: the event loop took a request from the queue.
PollOutgoing ==
    /\ Polling /\ connected
    /\ requests # <<>>
    /\ packet' = None
    /\ requests' = Tail(requests)
    /\ UNCHANGED <<cloud, mq_pc, mq_loop, mq_event, connected, taken, sink_open, pub_calls,
                   sub_calls, cmd_q, cmd_open, group_session, feed, inbox, delivered, mqttFrame>>

\* poll() gives any other incoming packet: logged.
PollOther ==
    /\ Polling /\ connected
    /\ packet' = None
    /\ UNCHANGED <<cloud, mq_pc, mq_loop, mq_event, requests, connected, taken, sink_open,
                   pub_calls, sub_calls, cmd_q, cmd_open, group_session, feed, inbox, delivered, mqttFrame>>

\* A poll error that ends the task.
PollErrEnding ==
    /\ Polling
    /\ packet' = None
    /\ connected' = FALSE
    /\ mq_pc' = "failed"
    /\ UNCHANGED <<cloud, mq_loop, mq_event, requests, taken, sink_open, pub_calls, sub_calls,
                   cmd_q, cmd_open, group_session, feed, inbox, delivered, mqttFrame>>

\* poll() gives Err: logged; the connection is gone, and the event loop has
\* kept the queued requests or moved them to its own pending list.
PollErr ==
    /\ Polling
    /\ packet' = None
    /\ connected' = FALSE
    /\ requests' \in {requests, <<>>}
    /\ UNCHANGED <<cloud, mq_pc, mq_loop, mq_event, taken, sink_open, pub_calls, sub_calls,
                   cmd_q, cmd_open, group_session, feed, inbox, delivered, mqttFrame>>

MqttTask ==
    \/ TakeEvent \/ PublishDone \/ PublishErr \/ StreamEnded
    \/ PollConnAck \/ SubscribeDone \/ SubscribeErr
    \/ PollOutgoing \/ PollOther \/ PollErr

NextMqtt ==
    \/ SinkSend \/ SinkClose \/ CommandsDropped
    \/ TakeEvent \/ PublishDone \/ PublishErr \/ StreamEnded
    \/ PollConnAck \/ SubscribeDone \/ SubscribeErr
    \/ PollPublish
    \/ PollOutgoing \/ PollOther \/ PollErr

SpecMqtt == InitMqtt /\ [][NextMqtt]_vars

\* A burst: two events more than the request queue holds, and a broker that
\* delivers no command.
Burst == [i \in 1..(ReqCap + 2) |-> MqttEvent("ch0", [features |-> [a |-> JsonNumber(i)]])]

InitBurst ==
    /\ pc = "mqtt"
    /\ MqttRunning
    /\ group_session = None
    /\ feed = Burst
    /\ inbox = <<>>
    /\ RouteIdle /\ AddrIdle /\ DataIdle /\ RunIdle /\ OpcIdle

NextBurst == SinkSend \/ SinkClose \/ MqttTask

\* The runtime keeps polling the task; whenever one of its futures can go on
\* for good, it does.  The broker answers a connection attempt and takes
\* queued requests whenever the event loop stays ready for it.
FairMqtt ==
    /\ InitBurst /\ [][NextBurst]_vars
    /\ WF_vars(TakeEvent) /\ WF_vars(PublishDone) /\ WF_vars(StreamEnded)
    /\ WF_vars(PollConnAck) /\ WF_vars(SubscribeDone) /\ WF_vars(PollOutgoing)

(***************************************************************************)
(* opcua/mod.rs: the command path.  An Event the middleware sends to the   *)
(* `commands` sink is taken by the dispatch task of OpcUaConnector::start, *)
(* which queues each update on the command channel of the connection named *)
(* by its channel; each connection's command_loop spawns one blocking      *)
(* closure per update, and the closure calls write_command.                *)
(***************************************************************************)
ConnCap == 1000

Connections == {"plc", "plc2"}

NodeId(namespace, type, value) == [namespace |-> namespace, type |-> type, value |-> value]

\* NodeId::from_str on the texts the model sends: Option, None for a parse error.
NodeId_from_str(text) ==
    CASE text = "ns=2;s=Pump" -> Some(NodeId(2, "String", "Pump"))
      [] text = "i=85" -> Some(NodeId(0, "Numeric", "85"))
      [] text = "ns=0;i=85" -> Some(NodeId(0, "Numeric", "85"))
      [] OTHER -> None

\* <NodeId as Display>::fmt: the namespace is left out when it is 0.
NodeId_to_string(node) ==
    (IF node.namespace = 0 THEN "" ELSE "ns=" \o ToString(node.namespace) \o ";")
        \o (IF node.type = "Numeric" THEN "i=" ELSE "s=") \o node.value

Variant(type, s, n) == [type |-> type, s |-> s, n |-> n]

\* Number::as_u64, as_i64 and as_f64: Option.  A number held as a float is
\* neither a u64 nor an i64, whatever its value; every number is an f64.
as_u64(value) == IF value.s = "" /\ value.n >= 0 THEN Some(value.n) ELSE None
as_i64(value) == IF value.s = "" THEN Some(value.n) ELSE None
as_f64(value) == Some(value)

\* serde_json::from_value::<Variant> of an object, Option, None for an error:
\* the enum is read from a map of exactly one entry whose key names a variant
\* and whose value is a content of that variant (an integer held as such and
\* within the range of the type, a boolean).  Of the library's variants the
\* model sends Int32, Byte and Boolean.
from_value(fields) ==
    IF Cardinality(DOMAIN fields) # 1 THEN None
    ELSE LET k == CHOOSE x \in DOMAIN fields : TRUE
             c == fields[k]
         IN  CASE k = "Int32" ->
                    IF c.kind = "Number" /\ c.s = "" THEN Some(Variant("Int32", "", c.n)) ELSE None
               [] k = "Byte" ->
                    IF c.kind = "Number" /\ c.s = "" /\ c.n >= 0 /\ c.n <= 255
                    THEN Some(Variant("Byte", "", c.n)) ELSE None
               [] k = "Boolean" ->
                    IF c.kind = "Bool" THEN Some(Variant("Boolean", c.s, 0)) ELSE None
               [] OTHER -> None

\* An into_variant that asks a number for an i64 before it asks for a u64.
into_variant_signed_first(value) ==
    CASE value.kind = "Null" -> Variant("Empty", "", 0)
      [] value.kind = "Bool" -> Variant("Boolean", value.s, 0)
      [] value.kind = "Number" ->
            IF as_i64(value) # None THEN Variant("Int64", "", value.n)
            ELSE Variant("Double", value.s, 0)
      [] value.kind = "String" -> Variant("String", value.s, 0)
      [] value.kind = "Array" -> Variant("StatusCode", "BadDataEncodingUnsupported", 0)
      [] value.kind = "Object" -> Variant("StatusCode", "BadDataEncodingInvalid", 0)

\* IntoVariant for Value.
into_variant(value) ==
    CASE value.kind = "Null" -> Variant("Empty", "", 0)
      [] value.kind = "Bool" -> Variant("Boolean", value.s, 0)
      [] value.kind = "Number" ->
            IF as_u64(value) # None THEN Variant("UInt64", "", as_u64(value)[1])
            ELSE IF as_i64(value) # None THEN Variant("Int64", "", as_i64(value)[1])
            ELSE IF as_f64(value) # None THEN Variant("Double", as_f64(value)[1].s, 0)
            ELSE Variant("StatusCode", "BadInvalidArgument", 0)
      [] value.kind = "String" -> Variant("String", value.s, 0)
      [] value.kind = "Array" -> Variant("StatusCode", "BadDataEncodingUnsupported", 0)
      [] value.kind = "Object" ->
            IF from_value(value.fields) # None THEN from_value(value.fields)[1]
            ELSE Variant("StatusCode", "BadDataEncodingInvalid", 0)

WriteValue(node_id, attribute_id, value) ==
    [node_id |-> node_id, attribute_id |-> attribute_id, value |-> value]

\* The text write_command takes the node id from: the extension `nodeId` when
\* it is a string, the last segment of the address otherwise.
node_id_text(u) ==
    IF "nodeId" \in DOMAIN u.extensions /\ u.extensions["nodeId"].kind = "String"
    THEN Some(u.extensions["nodeId"].s)
    ELSE IF u.address # <<>> THEN Some(u.address[Len(u.address)]) ELSE None

\* A write_command that looks at the address only.
write_command_by_address(u) ==
    IF u.address = <<>> \/ NodeId_from_str(u.address[Len(u.address)]) = None THEN None
    ELSE Some(WriteValue(NodeId_from_str(u.address[Len(u.address)])[1], "Value",
                         into_variant(u.value)))

\* A write_command that falls back to the address when the text of the
\* extension is no node id.
write_command_falling_back(u) ==
    LET text == node_id_text(u)
        last == IF u.address = <<>> THEN None ELSE NodeId_from_str(u.address[Len(u.address)])
    IN  IF text = None THEN None
        ELSE IF NodeId_from_str(text[1]) # None
             THEN Some(WriteValue(NodeId_from_str(text[1])[1], "Value", into_variant(u.value)))
        ELSE IF last # None THEN Some(WriteValue(last[1], "Value", into_variant(u.value)))
        ELSE None

\* write_command: Option, the WriteValue handed to session.write; None when
\* there is no node id text or it does not parse.
write_command(u) ==
    LET text == node_id_text(u)
    IN  IF text = None THEN None
        ELSE IF NodeId_from_str(text[1]) = None THEN None
        ELSE Some(WriteValue(NodeId_from_str(text[1])[1], "Value", into_variant(u.value)))

\* A line of the log: the connection it is about and its text.
LogLine(connection, text) == <<connection, text>>

\* What write_command logs for the update, ok telling whether session.write
\* succeeds: nothing when there is no node id text.
write_log(connection, u, ok) ==
    IF node_id_text(u) = None THEN <<>>
    ELSE IF NodeId_from_str(node_id_text(u)[1]) = None
         THEN <<LogLine(connection, "Failed to parse NodeId")>>
    ELSE IF ok THEN <<>>
    ELSE <<LogLine(connection, "Failed to write")>>

\* What handle_command logs: one line for every update whose connection has
\* dropped the receiver of its command channel.
RECURSIVE dispatch_log(_, _, _, _)
dispatch_log(queues, state, updates, i) ==
    IF i > Len(updates) THEN <<>>
    ELSE LET c == updates[i].channel
         IN  (IF c \in DOMAIN queues /\ state[c] # "running"
              THEN <<LogLine(c, "Failed to queue command")>> ELSE <<>>)
             \o dispatch_log(queues, state, updates, i + 1)

\* A handle_command that returns at the first update it cannot hand over.
RECURSIVE dispatch_command_stopping(_, _, _, _)
dispatch_command_stopping(queues, state, updates, i) ==
    IF i > Len(updates) THEN queues
    ELSE LET c == updates[i].channel
         IN  IF c \in DOMAIN queues /\ state[c] = "running"
             THEN dispatch_command_stopping([queues EXCEPT ![c] = Append(@, updates[i])],
                                            state, updates, i + 1)
             ELSE queues

\* OpcUaConnector::handle_command: the updates of one Event, in order, each
\* queued on the connection its channel names; an update naming no connection
\* is skipped, one whose connection dropped its receiver is logged.
RECURSIVE dispatch_command(_, _, _, _)
dispatch_command(queues, state, updates, i) ==
    IF i > Len(updates) THEN queues
    ELSE LET c == updates[i].channel
         IN  dispatch_command(
                 IF c \in DOMAIN queues /\ state[c] = "running"
                 THEN [queues EXCEPT ![c] = Append(@, updates[i])]
                 ELSE queues,
                 state, updates, i + 1)

MaxCommands == 2

DownPayload(connection, value, node_id) ==
    JsonObject([connection |-> JsonString(connection), value |-> value,
                nodeId |-> JsonString(node_id)])

\* Commands for both connections, one whose node id text is no node id, one
\* for a connection that is not configured, and a payload without `value`.
DownPublishes ==
    { Publish(WriteTopic, DownPayload("plc", JsonNumber(7), "ns=2;s=Pump")),
      Publish(WriteTopic, DownPayload("plc2", JsonBool(TRUE), "i=85")),
      Publish(WriteTopic, DownPayload("plc", JsonString("on"), "Pump")),
      Publish(WriteTopic, DownPayload("plc9", JsonNumber(7), "i=85")),
      Publish(WriteTopic, JsonObject([connection |-> JsonString("plc"),
                                      nodeId |-> JsonString("i=85")])) }

DownInboxes == SeqsUpTo(DownPublishes, MaxCommands)

\* No rule, and a rule that moves the commands of `plc` to the channel `plc2`.
DownSinks ==
    { EmptyMap,
      Insert(EmptyMap, <<"cloud", "commands", "plc">>, Source(None, Some("plc2"), EmptyMap)) }

\* The event channel is open and empty; a connection that runs its command
\* loop runs its session too.
EvRunning ==
    /\ ev_q = <<>> /\ ev_taken = 0 /\ ev_open = TRUE /\ posts = {} /\ posted = 0
    /\ run_loop = [c \in Connections |-> IF conn_state[c] = "running" THEN "running" ELSE "failed"]
    /\ parked = <<>>
    /\ calls = <<>>
    /\ subscriptions = [c \in Connections |-> ("s1" :> <<"i=85", "ns=2;s=Pump">>)]
    /\ to_subscribe = [c \in Connections |-> {}]

\* Every task is up; each connection either runs its command loop or has
\* returned from do_run before it, dropping the receiver of its channel.
InitDown ==
    /\ pc = "select"
    /\ mw_config \in [sources : {EmptyMap}, sinks : DownSinks]
    /\ batch = <<>> /\ delta_out = <<>> /\ channels = <<>> /\ full_out = <<>>
    /\ contributed = <<>>
    /\ RunIdle
    /\ MqttRunning
    /\ group_session = None
    /\ feed = <<>>
    /\ inbox \in DownInboxes
    /\ cmd_taken = 0 /\ dispatched = 0
    /\ conn_state \in [Connections -> {"running", "failed"}]
    /\ conn_q = [c \in Connections |-> <<>>]
    /\ spawned = 0 /\ blocking = {}
    /\ writes = [c \in Connections |-> <<>>]
    /\ log = <<>>
    /\ EvRunning
    /\ RouteIdle /\ AddrIdle

\* `command = command_stream.next()` gives the next Event of the command
\* channel: process_command.
NextCommand ==
    /\ pc = "select"
    /\ cmd_taken < Len(cmd_q)
    /\ cmd_taken' = cmd_taken + 1
    /\ batch' = cmd_q[cmd_taken + 1].updates
    /\ pending' = process_command(mw_config, cmd_q[cmd_taken + 1])
    /\ plane' = "command_stream"
    /\ received' = received + 1
    /\ pc' = "handle_command"
    /\ UNCHANGED <<cloud, commands, data_calls, produced, mw_config, delta_out, channels,
                   full_out, contributed, routeVars, addrVars, mqttVars, cmdVars, evVars>>

\* The dispatch task: `cmd_rx.next()` gives an Event, handle_command queues
\* its updates.
Dispatch ==
    /\ dispatched < Len(commands)
    /\ \A c \in Connections : Len(conn_q[c]) + Len(commands[dispatched + 1].updates) <= ConnCap
    /\ dispatched' = dispatched + 1
    /\ conn_q' = dispatch_command(conn_q, conn_state, commands[dispatched + 1].updates, 1)
    /\ log' = log \o dispatch_log(conn_q, conn_state, commands[dispatched + 1].updates, 1)
    /\ UNCHANGED <<pc, routeVars, addrVars, dataVars, runVars, mqttVars, cmd_taken,
                   conn_state, spawned, blocking, writes, evVars>>

\* command_loop of connection c: `commands.next()` gives an update, which goes
\* into a closure handed to spawn_blocking.
CommandLoop(c) ==
    /\ conn_state[c] = "running"
    /\ conn_q[c] # <<>>
    /\ spawned' = spawned + 1
    /\ blocking' = blocking \cup {[id |-> spawned + 1, connection |-> c, update |-> Head(conn_q[c])]}
    /\ conn_q' = [conn_q EXCEPT ![c] = Tail(@)]
    /\ UNCHANGED <<pc, routeVars, addrVars, dataVars, runVars, mqttVars, cmd_taken,
                   dispatched, conn_state, writes, log, evVars>>

\* The blocking pool runs one of the spawned closures, whichever it picks:
\* write_command, and the call of session.write when it gets that far; the
\* call succeeds or fails, as the server and the wire have it.
BlockingWrite ==
    \E t \in blocking, ok \in BOOLEAN :
        /\ blocking' = blocking \ {t}
        /\ writes' = IF write_command(t.update) = None THEN writes
                     ELSE [writes EXCEPT ![t.connection] = Append(@, write_command(t.update)[1])]
        /\ log' = log \o write_log(t.connection, t.update, ok)
        /\ UNCHANGED <<pc, routeVars, addrVars, dataVars, runVars, mqttVars, cmd_taken,
                       dispatched, conn_state, conn_q, spawned, evVars>>

NextDown ==
    \/ PollConnAck \/ SubscribeDone \/ PollPublish
    \/ NextCommand \/ DeviceSend
    \/ Dispatch
    \/ \E c \in Connections : CommandLoop(c)
    \/ BlockingWrite

SpecDown == InitDown /\ [][NextDown]_vars

\* The runtime polls every task that can go on, and the blocking pool runs
\* every closure handed to it.
FairDown ==
    /\ SpecDown
    /\ WF_vars(NextCommand) /\ WF_vars(DeviceSend) /\ WF_vars(Dispatch)
    /\ \A c \in Connections : WF_vars(CommandLoop(c))
    /\ WF_vars(BlockingWrite)

(***************************************************************************)
(* The dispatcher and the command loops on their own: the Events are in    *)
(* the sink of OpcUaConnector::start already, with any updates an Event    *)
(* can carry, not only those the MQTT adapter makes.                       *)
(***************************************************************************)
MaxUpdates == 2

CommandAddress(c) == <<"cloud", "commands", c>>

\* Updates with the node id in the extension, in the address, in neither and
\* in both; for both connections and for one that is not configured; with
\* values of every shape.
CommandUpdates ==
    { Update(CommandAddress("plc"), "plc", JsonNumber(7), [nodeId |-> JsonString("ns=2;s=Pump")]),
      Update(<<"x", "i=85">>, "plc2", JsonBool(TRUE), [nodeId |-> JsonNumber(85)]),
      Update(<<"x", "ns=2;s=Pump">>, "plc", JsonString("on"), EmptyMap),
      Update(<<>>, "plc", JsonNumber(7), EmptyMap),
      Update(<<"x", "i=85">>, "plc2", JsonNumber(1), [nodeId |-> JsonString("Pump")]),
      Update(CommandAddress("plc9"), "plc9", JsonNumber(7), [nodeId |-> JsonString("i=85")]),
      Update(CommandAddress("plc"), "plc", JsonArray, [nodeId |-> JsonString("i=85")]),
      Update(CommandAddress("plc2"), "plc2", JsonMap(EmptyMap), [nodeId |-> JsonString("i=85")]) }

\* The updates us as one Event, or as two with the first k in the first.
Events(us, k) ==
    IF us = <<>> THEN <<>>
    ELSE IF k = Len(us) THEN <<Event(us)>>
    ELSE <<Event(SubSeq(us, 1, k)), Event(SubSeq(us, k + 1, Len(us)))>>

InitDispatch ==
    /\ pc = "dispatch"
    /\ \E us \in SeqsUpTo(CommandUpdates, MaxUpdates) : \E k \in 1..Len(us) \cup {0} :
           commands = Events(us, k)
    /\ plane = "" /\ pending = <<>> /\ cloud = <<>>
    /\ received = 0 /\ data_calls = 0 /\ produced = <<>>
    /\ cmd_taken = 0 /\ dispatched = 0
    /\ conn_state \in [Connections -> {"running", "failed"}]
    /\ conn_q = [c \in Connections |-> <<>>]
    /\ spawned = 0 /\ blocking = {}
    /\ writes = [c \in Connections |-> <<>>]
    /\ log = <<>>
    /\ EvRunning
    /\ RouteIdle /\ AddrIdle /\ DataIdle /\ MqttIdle

NextDispatch ==
    \/ Dispatch
    \/ \E c \in Connections : CommandLoop(c)
    \/ BlockingWrite

SpecDispatch == InitDispatch /\ [][NextDispatch]_vars

(***************************************************************************)
(* into_variant on its own: one JSON value, converted once.                *)
(***************************************************************************)
Integers32 == {-100, -1, 0, 1, 100, 255, 256}
Scalars ==
    {JsonNull, JsonBool(TRUE), JsonBool(FALSE), JsonString(""), JsonString("Int32"),
     JsonFloat("1.23"), JsonFloat("1.0"), JsonFloat("-0.5"), JsonFloat("1e30")}
        \cup {JsonNumber(n) : n \in Integers32}
ObjectKeys == {"Int32", "Byte", "Boolean", "int32", "value"}

\* The empty object, the objects of one key over the scalars, arrays and the
\* empty object, and objects of two keys.
Objects ==
    {JsonMap(EmptyMap)}
        \cup {JsonMap(k :> c) : k \in ObjectKeys, c \in Scalars \cup {JsonArray, JsonMap(EmptyMap)}}
        \cup {JsonMap((k :> JsonNumber(1)) @@ ("Byte" :> JsonNumber(2))) : k \in {"Int32", "value"}}

JsonValues == Scalars \cup {JsonArray} \cup Objects

InitVariant ==
    /\ pc = "convert"
    /\ update \in {Update(<<"cloud", "commands", "plc">>, "plc", v, EmptyMap) : v \in JsonValues}
    /\ config = <<>>
    /\ out1 = None
    /\ out2 = None
    /\ AddrIdle /\ DataIdle /\ RunIdle /\ MqttIdle /\ OpcIdle

\* `update.value.into_variant()`
IntoVariant ==
    /\ pc = "convert"
    /\ out1' = Some(into_variant(update.value))
    /\ pc' = "converted"
    /\ UNCHANGED <<config, update, out2, addrVars, dataVars, runVars, mqttVars, opcVars>>

NextVariant == IntoVariant

SpecVariant == InitVariant /\ [][NextVariant]_vars

(***************************************************************************)
(* The event path.  A callback of the OPC UA client builds a batch and     *)
(* update_sync spawns a task that sends it into the event channel; the     *)
(* middleware takes the batches from that channel, and what process_event  *)
(* makes of them goes through the cloud sink to the MQTT adapter.  A       *)
(* session run loop that returns closes the event channel.  The broker    *)
(* gives the adapter nothing to poll here.                                 *)
(***************************************************************************)
EvCap == 1000

\* opcua/mod.rs: address().
address(connection, subscription, node_id) ==
    <<"opcua", connection, "subscriptions", subscription, node_id>>

\* on_data_change up to update_sync: one update per monitored item, each
\* with the one value n.
on_data_change(connection, subscription, items, n) ==
    [i \in 1..Len(items) |->
        Update(address(connection, subscription, items[i]), connection, JsonNumber(n), EmptyMap)]

MaxPosts == 2

ItemLists == {<<"i=85">>, <<"i=85", "ns=2;s=Pump">>}

\* No rule, and a rule that sends the updates of `plc2` to the channel `plc`.
UpSources ==
    { EmptyMap,
      Insert(EmptyMap, <<"opcua", "plc2">>, Source(None, Some("plc"), EmptyMap)) }

InitUp ==
    /\ pc = "select"
    /\ mw_config \in [sources : UpSources, sinks : {EmptyMap}]
    /\ batch = <<>> /\ delta_out = <<>> /\ channels = <<>> /\ full_out = <<>>
    /\ contributed = <<>>
    /\ RunIdle
    /\ MqttRunning
    /\ group_session = None
    /\ feed = <<>>
    /\ inbox = <<>>
    /\ cmd_taken = 0 /\ dispatched = 0
    /\ conn_state = [c \in Connections |-> "running"]
    /\ conn_q = [c \in Connections |-> <<>>]
    /\ spawned = 0 /\ blocking = {}
    /\ writes = [c \in Connections |-> <<>>]
    /\ log = <<>>
    /\ EvRunning
    /\ RouteIdle /\ AddrIdle

\* The session of connection c calls on_data_change: update_sync spawns the
\* task that will send the batch, and returns.
OnDataChange(c) ==
    /\ run_loop[c] = "running"
    /\ posted < MaxPosts
    /\ posted' = posted + 1
    /\ \E items \in ItemLists :
          posts' = posts \cup
                      {[id |-> posted + 1,
                        event |-> Event(on_data_change(c, "s1", items, posted + 1))]}
    /\ UNCHANGED <<pc, routeVars, addrVars, dataVars, runVars, mqttVars, cmd_taken, cmdVars,
                   ev_q, ev_taken, ev_open, run_loop, parked, sessVars>>

\* A send that gives the batch up when the channel holds its buffer's worth.
QueueUpdatesDropping ==
    /\ ev_open
    /\ \E t \in posts :
          /\ ev_q' = IF Len(ev_q) - ev_taken >= EvCap THEN ev_q ELSE Append(ev_q, t.event)
          /\ posts' = posts \ {t}
    /\ UNCHANGED <<pc, routeVars, addrVars, dataVars, runVars, mqttVars, cmd_taken, cmdVars,
                   ev_taken, ev_open, posted, run_loop, parked, sessVars>>

\* One of the spawned tasks, whichever the runtime polls, on its first poll
\* of `tx.0.send(event)`.  Its sender is a fresh clone, which the channel lets
\* queue one message whatever the channel holds; when the channel then holds
\* more than its buffer, the sender is parked and the send stays pending until
\* the receiver unparks it, otherwise the send returns Ok.
QueueUpdates ==
    /\ ev_open
    /\ \E t \in posts :
          /\ ev_q' = Append(ev_q, t.event)
          /\ posts' = posts \ {t}
          /\ parked' = IF Len(ev_q) - ev_taken + 1 > EvCap THEN Append(parked, t.id) ELSE parked
    /\ UNCHANGED <<pc, routeVars, addrVars, dataVars, runVars, mqttVars, cmd_taken, cmdVars,
                   ev_taken, ev_open, posted, run_loop, sessVars>>

\* `tx.0.send(event)` returns Err, the channel being closed: logged.
QueueUpdatesErr ==
    /\ ~ev_open
    /\ \E t \in posts : posts' = posts \ {t}
    /\ log' = Append(log, LogLine("", "Failed to queue updates"))
    /\ UNCHANGED <<pc, routeVars, addrVars, dataVars, runVars, mqttVars, cmd_taken,
                   dispatched, conn_state, conn_q, spawned, blocking, writes,
                   ev_q, ev_taken, ev_open, posted, run_loop, parked, sessVars>>

\* Session::run_loop of connection c returns: do_run closes the event channel.
RunLoopReturns(c) ==
    /\ run_loop[c] = "running"
    /\ run_loop' = [run_loop EXCEPT ![c] = "returned"]
    /\ ev_open' = FALSE
    /\ UNCHANGED <<pc, routeVars, addrVars, dataVars, runVars, mqttVars, cmd_taken, cmdVars,
                   ev_q, ev_taken, posts, posted, parked, sessVars>>

(***************************************************************************)
(* opcua/mod.rs: a connection from the connect to the end of its session.  *)
(* do_run posts the connection state, makes the subscriptions one by one   *)
(* and enters the session's run loop; the session calls on_session_closed. *)
(* Every post is a task that update_sync spawns; the tasks are not polled  *)
(* here, and the connection `plc2` has failed to connect.                  *)
(***************************************************************************)
MaxTime == 2
MaxClosings == 1

\* now(): the text of the reading t of the clock.
now(t) == "T" \o ToString(t)

Times == 1..MaxTime

\* connection_state(connection, timestamp, code)
connection_state(connection, timestamp, code) ==
    Update(<<"opcua", connection, "connection">>, connection,
           IF code = "Good"
           THEN JsonMap([connected |-> JsonBool(TRUE), timestamp |-> JsonString(timestamp)])
           ELSE JsonMap([connected |-> JsonBool(FALSE), status |-> JsonString(code),
                         timestamp |-> JsonString(timestamp)]),
           EmptyMap)

\* The loop of subscribe_one over `items_to_create.zip(result)` from pair i
\* on: one update for every result that is not good, stamped when it is made.
RECURSIVE subscribe_updates(_, _, _, _, _, _)
subscribe_updates(connection, id, items, result, times, i) ==
    IF i > Len(items) \/ i > Len(result) THEN <<>>
    ELSE (IF result[i] # "Good"
            THEN <<Update(address(connection, id, NodeId_to_string(items[i])), connection,
                          JsonMap([subscribed |-> JsonBool(FALSE),
                                   timestamp |-> JsonString(now(times[i])),
                                   status |-> JsonString(result[i])]),
                          EmptyMap)>>
            ELSE <<>>)
         \o subscribe_updates(connection, id, items, result, times, i + 1)

\* A subscribe_one that reports every item, the good ones too.
subscribe_one_reporting_all(connection, id, nodes, result, times) ==
    IF \E i \in DOMAIN nodes : NodeId_from_str(nodes[i]) = None THEN None
    ELSE Some([i \in DOMAIN nodes |->
                 Update(address(connection, id, NodeId_to_string(NodeId_from_str(nodes[i])[1])),
                        connection,
                        JsonMap([subscribed |-> JsonBool(FALSE),
                                 timestamp |-> JsonString(now(times[i])),
                                 status |-> JsonString(result[i])]),
                        EmptyMap)])

\* subscribe_one from the parsing of the node texts on: Option, None when a
\* text is no node id (`?`), otherwise the batch handed to update_sync.
subscribe_one(connection, id, nodes, result, times) ==
    IF \E i \in DOMAIN nodes : NodeId_from_str(nodes[i]) = None THEN None
    ELSE Some(subscribe_updates(connection, id,
                                [i \in DOMAIN nodes |-> NodeId_from_str(nodes[i])[1]],
                                result, times, 1))

\* The node texts ConnectionEventSender keeps: parsed and written again, or
\* as they are when they do not parse.
normalized(nodes) ==
    [i \in DOMAIN nodes |->
        IF NodeId_from_str(nodes[i]) # None
        THEN NodeId_to_string(NodeId_from_str(nodes[i])[1])
        ELSE nodes[i]]

\* The inner loop of on_session_closed over the nodes of one subscription.
closed_items(connection, id, nodes, timestamp) ==
    [i \in DOMAIN nodes |->
        Update(address(connection, id, nodes[i]), connection,
               JsonMap([timestamp |-> JsonString(timestamp), subscribed |-> JsonBool(FALSE)]),
               EmptyMap)]

\* `for (id, sub) in &self.subscriptions` with the map giving its entries in
\* the order `order`, from entry i on.
RECURSIVE closed_subscriptions(_, _, _, _, _)
closed_subscriptions(connection, subs, order, timestamp, i) ==
    IF i > Len(order) THEN <<>>
    ELSE closed_items(connection, order[i], normalized(subs[order[i]]), timestamp)
         \o closed_subscriptions(connection, subs, order, timestamp, i + 1)

\* An on_session_closed that reports the connection only.
on_session_closed_connection_only(connection, subs, order, timestamp, code) ==
    <<connection_state(connection, timestamp, code)>>

\* on_session_closed up to update_sync.
on_session_closed(connection, subs, order, timestamp, code) ==
    <<connection_state(connection, timestamp, code)>>
        \o closed_subscriptions(connection, subs, order, timestamp, 1)

\* Status codes of a monitored item, and of a closed session.
ItemStatuses == {"Good", "BadNodeIdUnknown"}
CloseCodes == {"Good", "BadConnectionClosed"}

\* config.subscriptions of a connection: none, one, two; a node text that is
\* not in its normal form, and one that is no node id.
SubscriptionConfigs ==
    { EmptyMap,
      ("s1" :> <<"ns=0;i=85", "ns=2;s=Pump">>),
      ("s1" :> <<"i=85">>) @@ ("s2" :> <<"ns=2;s=Pump">>),
      ("s1" :> <<"i=85", "Pump">>) }

\* The readings of the clock for n calls of now() in a row.
Stamps(n) == {ts \in [1..n -> Times] : \A i \in 1..(n - 1) : ts[i] <= ts[i + 1]}

InitSession ==
    /\ pc = "session"
    /\ subscriptions \in [Connections -> SubscriptionConfigs]
    /\ subscriptions["plc2"] = EmptyMap
    /\ run_loop = [c \in Connections |-> IF c = "plc" THEN "connected" ELSE "failed"]
    /\ to_subscribe = [c \in Connections |-> DOMAIN subscriptions[c]]
    /\ calls = <<>>
    /\ parked = <<>>
    /\ ev_q = <<>> /\ ev_taken = 0 /\ ev_open = TRUE /\ posts = {} /\ posted = 0
    /\ cmd_taken = 0 /\ dispatched = 0
    /\ conn_state = [c \in Connections |-> IF c = "plc" THEN "running" ELSE "failed"]
    /\ conn_q = [c \in Connections |-> <<>>]
    /\ spawned = 0 /\ blocking = {}
    /\ writes = [c \in Connections |-> <<>>]
    /\ log = <<>>
    /\ RouteIdle /\ AddrIdle /\ DataIdle /\ RunIdle /\ MqttIdle

sessFrame ==
    <<pc, routeVars, addrVars, dataVars, runVars, mqttVars, cmd_taken, dispatched, conn_q,
      spawned, blocking, writes, ev_q, ev_taken, ev_open, parked, subscriptions>>

\* update_sync(updates): a task is spawned that will send the batch.
Spawned(updates) == posts \cup {[id |-> posted + 1, event |-> Event(updates)]}

\* do_run after the callbacks are set:
\* `tx.update_sync([connection_state(&self.id, now(), StatusCode::Good)])`.
PostConnected(c) ==
    /\ run_loop[c] = "connected"
    /\ \E t \in Times : posts' = Spawned(<<connection_state(c, now(t), "Good")>>)
    /\ posted' = posted + 1
    /\ run_loop' = [run_loop EXCEPT ![c] = "subscribing"]
    /\ UNCHANGED <<calls, to_subscribe, conn_state, log, sessFrame>>

\* `subscribe` comes to one of the subscriptions, whichever the map gives
\* next, and subscribe_one gets its monitored items made, the server giving
\* one status for each: the batch is posted, and when a node text is no node
\* id do_run returns the error, which start logs.
SubscribeOne(c) ==
    /\ run_loop[c] = "subscribing"
    /\ \E id \in to_subscribe[c] :
        LET nodes == subscriptions[c][id]
        IN  \E result \in [1..Len(nodes) -> ItemStatuses], times \in Stamps(Len(nodes)) :
              LET batch_made == subscribe_one(c, id, nodes, result, times)
              IN  IF batch_made = None
                  THEN /\ run_loop' = [run_loop EXCEPT ![c] = "failed"]
                       /\ conn_state' = [conn_state EXCEPT ![c] = "failed"]
                       /\ log' = Append(log, LogLine(c, "Failed to run OPC connection"))
                       /\ UNCHANGED <<posts, posted, calls, to_subscribe>>
                  ELSE /\ posts' = Spawned(batch_made[1])
                       /\ posted' = posted + 1
                       /\ to_subscribe' = [to_subscribe EXCEPT ![c] = @ \ {id}]
                       /\ calls' = Append(calls, [op |-> "subscribe_one", connection |-> c,
                                                  subscription |-> id, nodes |-> nodes,
                                                  result |-> result, times |-> times,
                                                  post |-> posted + 1])
                       /\ UNCHANGED <<run_loop, conn_state, log>>
    /\ UNCHANGED sessFrame

\* create_subscription or create_monitored_items returns an error: do_run
\* returns it, and start logs it.
SubscribeOneErr(c) ==
    /\ run_loop[c] = "subscribing"
    /\ to_subscribe[c] # {}
    /\ run_loop' = [run_loop EXCEPT ![c] = "failed"]
    /\ conn_state' = [conn_state EXCEPT ![c] = "failed"]
    /\ log' = Append(log, LogLine(c, "Failed to run OPC connection"))
    /\ UNCHANGED <<posts, posted, calls, to_subscribe, sessFrame>>

\* Every subscription is made: the command loop is spawned and
\* Session::run_loop is entered.
EnterRunLoop(c) ==
    /\ run_loop[c] = "subscribing"
    /\ to_subscribe[c] = {}
    /\ run_loop' = [run_loop EXCEPT ![c] = "running"]
    /\ UNCHANGED <<posts, posted, calls, to_subscribe, conn_state, log, sessFrame>>

Closings == Cardinality({i \in DOMAIN calls : calls[i].op = "session_closed"})

\* The session of connection c calls on_session_closed(code).
OnSessionClosed(c) ==
    /\ run_loop[c] = "running"
    /\ Closings < MaxClosings
    /\ \E code \in CloseCodes, t \in Times, order \in Orders(DOMAIN subscriptions[c]) :
          /\ posts' = Spawned(on_session_closed(c, subscriptions[c], order, now(t), code))
          /\ calls' = Append(calls, [op |-> "session_closed", connection |-> c, code |-> code,
                                     time |-> t, post |-> posted + 1])
    /\ posted' = posted + 1
    /\ UNCHANGED <<run_loop, to_subscribe, conn_state, log, sessFrame>>

NextSession ==
    \/ \E c \in Connections :
          \/ PostConnected(c) \/ SubscribeOne(c) \/ SubscribeOneErr(c) \/ EnterRunLoop(c)
          \/ OnSessionClosed(c)

SpecSession == InitSession /\ [][NextSession]_vars

upFrame ==
    <<mw_config, delta_out, channels, full_out, contributed, routeVars, addrVars, cmd_taken,
      cmdVars, ev_q, ev_open, posts, posted, run_loop, sessVars>>

\* `event = events.next()` gives the next batch of the event channel, and the
\* receiver unparks the sender parked longest, whose send then returns Ok:
\* process_event, up to the first send.
NextEvent ==
    /\ pc = "select"
    /\ ev_taken < Len(ev_q)
    /\ ev_taken' = ev_taken + 1
    /\ parked' = IF parked = <<>> THEN parked ELSE Tail(parked)
    /\ batch' = ev_q[ev_taken + 1].updates
    /\ pending' \in process_event(mw_config.sources, batch')
    /\ plane' = "events"
    /\ data_calls' = data_calls + 1
    /\ produced' = produced \o pending'
    /\ received' = received + 1
    /\ pc' = IF pending' = <<>> THEN "select" ELSE "handle_event"
    /\ UNCHANGED <<cloud, commands, mqttVars, upFrame>>

\* An end of stream seen while batches are queued.
EventsEndHasty ==
    /\ pc = "select"
    /\ ~ev_open
    /\ pc' = "exited"
    /\ plane' = "events"
    /\ sink_open' = FALSE
    /\ cmd_open' = FALSE
    /\ UNCHANGED <<batch, pending, cloud, commands, received, data_calls, produced, ev_taken,
                   mq_pc, mq_loop, mq_event, requests, connected, taken, pub_calls, sub_calls,
                   cmd_q, packet, group_session, feed, inbox, delivered, parked, upFrame>>

\* `events.next()` gives None, the channel being closed and empty: run
\* returns, which drops the cloud sink and the command stream.
EventsEnd ==
    /\ pc = "select"
    /\ ~ev_open /\ ev_taken = Len(ev_q)
    /\ pc' = "exited"
    /\ plane' = "events"
    /\ sink_open' = FALSE
    /\ cmd_open' = FALSE
    /\ UNCHANGED <<batch, pending, cloud, commands, received, data_calls, produced, ev_taken,
                   mq_pc, mq_loop, mq_event, requests, connected, taken, pub_calls, sub_calls,
                   cmd_q, packet, group_session, feed, inbox, delivered, parked, upFrame>>

\* `command_stream.next()` gives None, the MQTT adapter having returned and
\* dropped its sender: run returns.
CommandsEnd ==
    /\ pc = "select"
    /\ mq_pc \in {"ended", "failed"} /\ cmd_taken = Len(cmd_q)
    /\ pc' = "exited"
    /\ plane' = "command_stream"
    /\ sink_open' = FALSE
    /\ cmd_open' = FALSE
    /\ UNCHANGED <<batch, pending, cloud, commands, received, data_calls, produced, ev_taken,
                   mq_pc, mq_loop, mq_event, requests, connected, taken, pub_calls, sub_calls,
                   cmd_q, packet, group_session, feed, inbox, delivered, parked, upFrame>>

\* The cloud sink takes the event while the MQTT adapter holds its receiver.
CloudAccepts == mq_pc \notin {"ended", "failed"} /\ CloudSend

\* The cloud sink refuses the event once the MQTT adapter has returned.
CloudRefuses == mq_pc \in {"ended", "failed"} /\ CloudSendErr

NextUp ==
    \/ \E c \in Connections : OnDataChange(c)
    \/ QueueUpdates \/ QueueUpdatesErr
    \/ \E c \in Connections : RunLoopReturns(c)
    \/ NextEvent \/ EventsEnd \/ CommandsEnd
    \/ CloudAccepts \/ CloudRefuses
    \/ TakeEvent \/ PublishDone \/ PublishErr \/ StreamEnded

SpecUp == InitUp /\ [][NextUp]_vars

\* A turn of the middleware loop that takes a batch: the step of NextEvent,
\* the only one that moves ev_taken, and enabled exactly when NextEvent is.
TakesBatch == pc = "select" /\ ev_taken < Len(ev_q) /\ ev_taken' = ev_taken + 1

\* The other steps of the middleware task: a send, or a stream found ended.
MiddlewareTurn == EventsEnd \/ CommandsEnd \/ CloudAccepts \/ CloudRefuses

\* The runtime polls the middleware task whenever it can go on.
FairUp == SpecUp /\ WF_ev_taken(TakesBatch) /\ WF_vars(MiddlewareTurn)

(***************************************************************************)
(* The end of a session: the session of `plc` calls on_session_closed,     *)
(* its run loop returns and do_run closes the event channel, while the     *)
(* runtime polls the spawned sends and the middleware; `plc2` has failed   *)
(* to connect.                                                             *)
(***************************************************************************)
InitClose ==
    /\ pc = "select"
    /\ mw_config \in [sources : {EmptyMap}, sinks : {EmptyMap}]
    /\ batch = <<>> /\ delta_out = <<>> /\ channels = <<>> /\ full_out = <<>>
    /\ contributed = <<>>
    /\ RunIdle
    /\ MqttRunning
    /\ group_session = None
    /\ feed = <<>>
    /\ inbox = <<>>
    /\ cmd_taken = 0 /\ dispatched = 0
    /\ conn_state = [c \in Connections |-> IF c = "plc" THEN "running" ELSE "failed"]
    /\ conn_q = [c \in Connections |-> <<>>]
    /\ spawned = 0 /\ blocking = {}
    /\ writes = [c \in Connections |-> <<>>]
    /\ log = <<>>
    /\ ev_q = <<>> /\ ev_taken = 0 /\ ev_open = TRUE /\ posts = {} /\ posted = 0
    /\ run_loop = [c \in Connections |-> IF c = "plc" THEN "running" ELSE "failed"]
    /\ parked = <<>>
    /\ calls = <<>>
    /\ subscriptions \in [Connections -> SubscriptionConfigs]
    /\ subscriptions["plc2"] = EmptyMap
    /\ to_subscribe = [c \in Connections |-> {}]
    /\ RouteIdle /\ AddrIdle

NextClose ==
    \/ \E c \in Connections : OnSessionClosed(c)
    \/ \E c \in Connections : RunLoopReturns(c)
    \/ QueueUpdates \/ QueueUpdatesErr
    \/ NextEvent \/ EventsEnd
    \/ CloudAccepts

SpecClose == InitClose /\ [][NextClose]_vars

(***************************************************************************)
(* The event path under back-pressure: the event channel starts with its   *)
(* buffer full of the empty batches that subscriptions posted when every   *)
(* item was good; `plc2` has failed to connect, and the MQTT adapter is    *)
(* not polled.                                                             *)
(***************************************************************************)
InitPressure ==
    /\ pc = "select"
    /\ mw_config \in [sources : {EmptyMap}, sinks : {EmptyMap}]
    /\ batch = <<>> /\ delta_out = <<>> /\ channels = <<>> /\ full_out = <<>>
    /\ contributed = <<>>
    /\ RunIdle
    /\ MqttRunning
    /\ group_session = None
    /\ feed = <<>>
    /\ inbox = <<>>
    /\ cmd_taken = 0 /\ dispatched = 0
    /\ conn_state = [c \in Connections |-> IF c = "plc" THEN "running" ELSE "failed"]
    /\ conn_q = [c \in Connections |-> <<>>]
    /\ spawned = 0 /\ blocking = {}
    /\ writes = [c \in Connections |-> <<>>]
    /\ log = <<>>
    /\ ev_q = [i \in 1..EvCap |-> Event(<<>>)]
    /\ ev_taken = 0 /\ ev_open = TRUE /\ posts = {} /\ posted = 0
    /\ run_loop = [c \in Connections |-> IF c = "plc" THEN "running" ELSE "failed"]
    /\ parked = <<>>
    /\ calls = <<>>
    /\ subscriptions = [c \in Connections |-> ("s1" :> <<"i=85", "ns=2;s=Pump">>)]
    /\ to_subscribe = [c \in Connections |-> {}]
    /\ RouteIdle /\ AddrIdle

NextPressure ==
    \/ \E c \in Connections : OnDataChange(c)
    \/ QueueUpdates \/ QueueUpdatesErr
    \/ \E c \in Connections : RunLoopReturns(c)
    \/ NextEvent \/ EventsEnd
    \/ CloudAccepts

SpecPressure == InitPressure /\ [][NextPressure]_vars

\* The runtime polls every spawned send and the middleware task whenever
\* they can go on.
FairPressure ==
    /\ SpecPressure
    /\ WF_vars(QueueUpdates)
    /\ WF_ev_taken(TakesBatch)
    /\ WF_vars(CloudAccepts)

(***************************************************************************)
(* Routing claims.  The expected result is stated over the table's keys,   *)
(* not over the loop of process_update.                                    *)
(***************************************************************************)
IsPrefix(p, a) == Len(p) <= Len(a) /\ \A j \in 1..Len(p) : p[j] = a[j]

\* The keys of R that are whole-segment prefixes of a and set the field f.
SettingKeys(R, a, f) == {p \in DOMAIN R : IsPrefix(p, a) /\ R[p][f] # None}

Longest(K) == CHOOSE p \in K : \A q \in K : Len(q) <= Len(p)

ExpectedChannel(R, u) ==
    LET K == SettingKeys(R, u.address, "channel")
    IN  IF K = {} THEN u.channel ELSE R[Longest(K)].channel[1]

ExpectedDrop(R, u) ==
    LET K == SettingKeys(R, u.address, "drop")
    IN  K # {} /\ R[Longest(K)].drop = Some(TRUE)

\* The keys of R that are prefixes of a and whose extensions define key k.
DefiningKeys(R, a, k) == {p \in DOMAIN R : IsPrefix(p, a) /\ k \in DOMAIN R[p].extensions}

ExpectedExtensionKeys(R, u) ==
    DOMAIN u.extensions
        \cup UNION {DOMAIN R[p].extensions : p \in {q \in DOMAIN R : IsPrefix(q, u.address)}}

ExpectedExtension(R, u, k) ==
    LET K == DefiningKeys(R, u.address, k)
    IN  IF K = {} THEN u.extensions[k] ELSE R[Longest(K)].extensions[k]

Routed == pc \in {"routed", "routed twice"}

\* C1: the channel of a routed update is the channel of the longest prefix of
\* its address whose rule sets a channel, and the update's own channel when no
\* matching rule sets one.
C1_ChannelOfLongestPrefix ==
    (Routed /\ out1 # None) => out1[1].channel = ExpectedChannel(config, update)

\* A shorter and a longer matching prefix set different channels; the longer wins.
C1_Witness ==
    /\ Routed /\ out1 # None
    /\ \E p, q \in SettingKeys(config, update.address, "channel") :
          /\ Len(p) < Len(q)
          /\ config[p].channel # config[q].channel
          /\ out1[1].channel = config[q].channel[1]

\* C2: an update is dropped exactly when the most specific matching rule that
\* sets `drop` sets it to true.
C2_DropByMostSpecific ==
    Routed => ((out1 = None) <=> ExpectedDrop(config, update))

\* A shorter prefix drops, a longer prefix sets drop=false, the update survives.
C2_Witness ==
    /\ Routed /\ out1 # None
    /\ \E p, q \in SettingKeys(config, update.address, "drop") :
          /\ Len(p) < Len(q)
          /\ config[p].drop = Some(TRUE)
          /\ config[q].drop = Some(FALSE)

\* C3: the extensions of a surviving update are its own extensions overlaid by
\* those of the matching rules: each key takes the value of the longest matching
\* prefix that defines it, else the update's own; no key is added or removed.
C3_ExtensionsOverlay ==
    (Routed /\ out1 # None) =>
        /\ DOMAIN out1[1].extensions = ExpectedExtensionKeys(config, update)
        /\ \A k \in DOMAIN out1[1].extensions :
              out1[1].extensions[k] = ExpectedExtension(config, update, k)

\* One key is defined by the update and by two matching prefixes with different
\* values, and another key only by the shorter prefix.
C3_Witness ==
    /\ Routed /\ out1 # None
    /\ \E k \in DOMAIN update.extensions :
          \E p, q \in DefiningKeys(config, update.address, k) :
              /\ Len(p) < Len(q)
              /\ config[p].extensions[k] # config[q].extensions[k]
              /\ update.extensions[k] # config[q].extensions[k]
              /\ out1[1].extensions[k] = config[q].extensions[k]
              /\ \E j \in DOMAIN config[p].extensions :
                    /\ j \notin DOMAIN config[q].extensions
                    /\ out1[1].extensions[j] = config[p].extensions[j]

\* C4: routing is idempotent: routing the routed update again gives the same
\* outcome (dropped or not, address, channel, value, extensions).
C4_Idempotent == pc = "routed twice" => out2 = out1

\* The first routing changed the channel and the extensions; the second kept them.
C4_Witness ==
    /\ pc = "routed twice"
    /\ out1 # None
    /\ out1[1].channel # update.channel
    /\ out1[1].extensions # update.extensions
    /\ out2 = out1

(***************************************************************************)
(* Data layer claims, stated over the positions of the batch.              *)
(***************************************************************************)
SurvivorIdx(R, b) == {i \in 1..Len(b) : ~ExpectedDrop(R, b[i])}

RoutedExtensions(R, u) ==
    [k \in ExpectedExtensionKeys(R, u) |-> ExpectedExtension(R, u, k)]

\* The feature names of an update whose routed extensions are e: the `feature`
\* extension when it is a string, else the last segment of a non-empty address.
NamedFeature(e, a) ==
    IF "feature" \in DOMAIN e /\ e["feature"].kind = "String" THEN {e["feature"].s}
    ELSE IF Len(a) > 0 THEN {a[Len(a)]}
    ELSE {}

\* The same, with an empty last segment naming no feature.
NamedNonEmptyFeature(e, a) ==
    IF "feature" \in DOMAIN e /\ e["feature"].kind = "String" THEN {e["feature"].s}
    ELSE IF Len(a) > 0 /\ a[Len(a)] # "" THEN {a[Len(a)]}
    ELSE {}

FeatureAt(R, b, i) == NamedFeature(RoutedExtensions(R, b[i]), b[i].address)

\* The positions of the batch that survive R and resolve to channel c, feature f.
Hits(R, b, c, f) ==
    {i \in SurvivorIdx(R, b) : ExpectedChannel(R, b[i]) = c /\ FeatureAt(R, b, i) = {f}}

TouchedChannels(R, b) ==
    {ExpectedChannel(R, b[i]) : i \in {j \in SurvivorIdx(R, b) : FeatureAt(R, b, j) # {}}}

TouchedFeatures(R, b, c) ==
    UNION {FeatureAt(R, b, i) : i \in {j \in SurvivorIdx(R, b) : ExpectedChannel(R, b[j]) = c}}

MaxOf(S) == CHOOSE i \in S : \A j \in S : j <= i

DeltaDone == pc \in {"delta done", "full done"}

\* C6: the delta layer returns one event per distinct channel among the
\* surviving updates that have a feature name: no channel twice, and no event
\* when there is no such update.
C6_OneEventPerChannel ==
    DeltaDone =>
        /\ Len(delta_out) = Cardinality(TouchedChannels(mw_config.sources, batch))
        /\ {delta_out[i].channel : i \in DOMAIN delta_out}
              = TouchedChannels(mw_config.sources, batch)

\* Three updates survive, two of them on one channel: two events.
C6_Witness ==
    /\ DeltaDone
    /\ Len(batch) = 3
    /\ SurvivorIdx(mw_config.sources, batch) = {1, 2, 3}
    /\ \A i \in 1..3 : FeatureAt(mw_config.sources, batch, i) # {}
    /\ Len(delta_out) = 2

\* C7: in each returned event the `features` object holds, for every feature
\* touched on that channel in the batch, the value of the last update that
\* resolved to that channel and feature, and nothing else.
C7_LastValuePerFeature ==
    DeltaDone =>
        \A n \in DOMAIN delta_out :
            LET c == delta_out[n].channel
                features == delta_out[n].payload.features
            IN  /\ DOMAIN features = TouchedFeatures(mw_config.sources, batch, c)
                /\ \A f \in DOMAIN features :
                      features[f] = batch[MaxOf(Hits(mw_config.sources, batch, c, f))].value

\* (ch, x=1), (ch, y=2), (ch, x=3) gives {x: 3, y: 2}.
C7_Witness ==
    /\ DeltaDone
    /\ Len(batch) = 3
    /\ Len(delta_out) = 1
    /\ \E x, y \in DOMAIN delta_out[1].payload.features :
          /\ x # y
          /\ Hits(mw_config.sources, batch, delta_out[1].channel, x) = {1, 3}
          /\ Hits(mw_config.sources, batch, delta_out[1].channel, y) = {2}
          /\ delta_out[1].payload.features[x] = batch[3].value
          /\ delta_out[1].payload.features[y] = batch[2].value

EmittedKeys(out, c) ==
    UNION {DOMAIN out[n].payload.features : n \in {m \in DOMAIN out : out[m].channel = c}}

AllChannels(R, b) == {ExpectedChannel(R, b[i]) : i \in 1..Len(b)}

\* C8 as stated: the keys emitted for a channel are the feature names of the
\* surviving updates on it, where an empty last segment names no feature.
C8_NoEmptySegmentFeature ==
    /\ DeltaDone =>
          \A c \in AllChannels(mw_config.sources, batch) :
              EmittedKeys(delta_out, c) =
                  UNION {NamedNonEmptyFeature(RoutedExtensions(mw_config.sources, batch[i]),
                                              batch[i].address) :
                         i \in {j \in SurvivorIdx(mw_config.sources, batch) :
                                  ExpectedChannel(mw_config.sources, batch[j]) = c}}
    /\ pc = "full done" =>
          \A c \in AllChannels(mw_config.sources, batch) :
              EmittedKeys(full_out, c) =
                  UNION {NamedNonEmptyFeature(RoutedExtensions(mw_config.sources, batch[i]),
                                              batch[i].address) :
                         i \in {j \in SurvivorIdx(mw_config.sources, batch) :
                                  ExpectedChannel(mw_config.sources, batch[j]) = c}}

\* C8, amended: the feature name is the `feature` extension when it is a string,
\* else the last segment of the address when the address has a segment (the
\* empty string when that segment is empty); both layers emit exactly the keys
\* so named by the surviving updates of the channel.
C8_FeatureDerivation ==
    /\ DeltaDone =>
          \A c \in AllChannels(mw_config.sources, batch) :
              EmittedKeys(delta_out, c) = TouchedFeatures(mw_config.sources, batch, c)
    /\ pc = "full done" =>
          \A c \in AllChannels(mw_config.sources, batch) :
              EmittedKeys(full_out, c) = TouchedFeatures(mw_config.sources, batch, c)

\* One update named by its string extension, one whose non-string extension
\* falls back to its last segment, one with an empty address and no feature.
C8_Witness ==
    /\ pc = "full done"
    /\ Len(batch) = 3
    /\ mw_config.sources = EmptyMap
    /\ batch[1].extensions = [feature |-> JsonString("temp")]
    /\ batch[2].extensions = [feature |-> JsonNumber(7)] /\ batch[2].address = <<"b">>
    /\ batch[3].address = <<>> /\ batch[3].extensions = EmptyMap
    /\ EmittedKeys(delta_out, "ch0") = {"temp", "b"}
    /\ EmittedKeys(full_out, "ch0") = {"temp", "b"}

\* The channels of the updates of b that name a feature.
BatchChannels(b) ==
    {b[i].channel : i \in {j \in 1..Len(b) : NamedFeature(b[j].extensions, b[j].address) # {}}}

C9_Emitted ==
    pc = "emitted" =>
        /\ Len(full_out) = Cardinality(BatchChannels(batch))
        /\ {full_out[n].channel : n \in DOMAIN full_out} = BatchChannels(batch)
        /\ \A n \in DOMAIN full_out :
              full_out[n].payload.features = contributed[full_out[n].channel]

C9_Retained ==
    \A c \in DOMAIN channels :
        /\ c \in DOMAIN channels'
        /\ DOMAIN channels[c].features \subseteq DOMAIN channels'[c].features

\* C9: in full-state mode the event emitted for a channel touched by the last
\* batch carries the most-recent-wins union of everything contributed to the
\* channel so far; untouched channels are not emitted; a retained channel or
\* feature key is never removed.
C9_FullState == [](C9_Emitted) /\ [][C9_Retained]_vars

\* The emitted channel carries a feature the last batch did not touch, next to
\* one it overwrote with a new value, and another retained channel is not emitted.
C9_Witness ==
    /\ pc = "emitted"
    /\ Len(full_out) = 1
    /\ \E c \in DOMAIN channels : c # full_out[1].channel
    /\ Len(batch) = 1
    /\ Cardinality(DOMAIN full_out[1].payload.features) = 2
    /\ full_out[1].payload.features[batch[1].address[1]] = batch[1].value

(***************************************************************************)
(* Run loop claims                                                         *)
(***************************************************************************)
\* The updates of b that survive R, routed, in their order.
RECURSIVE ExpectedRouted(_, _)
ExpectedRouted(R, b) ==
    IF b = <<>> THEN <<>>
    ELSE (IF ExpectedDrop(R, Head(b)) THEN <<>>
          ELSE <<[Head(b) EXCEPT !.channel = ExpectedChannel(R, Head(b)),
                                 !.extensions = RoutedExtensions(R, Head(b))]>>)
         \o ExpectedRouted(R, Tail(b))

TakesCommand == pc = "select" /\ pc' = "handle_command"
TakesEvent == pc = "select" /\ plane' = "events" /\ received' = received + 1

\* A step of the command plane sends nothing to `cloud` and does not call the
\* data layer; what it hands on is the batch as routed by the sinks table.
C10_CommandPlane ==
    /\ (TakesCommand \/ pc = "handle_command") =>
          (cloud' = cloud /\ data_calls' = data_calls)
    /\ TakesCommand =>
          pending' = <<[updates |-> ExpectedRouted(mw_config.sinks, batch')]>>
    /\ (pc = "handle_command" /\ pc' # "failed") =>
          (commands' = Append(commands, Head(pending)) /\ plane = "command_stream")

\* A step of the events plane sends nothing to `commands`; what it hands on are
\* the events of the channels the batch touches as routed by the sources table.
C10_EventsPlane ==
    /\ (TakesEvent \/ pc = "handle_event") => commands' = commands
    /\ TakesEvent =>
          {pending'[n].channel : n \in DOMAIN pending'}
              = TouchedChannels(mw_config.sources, batch')
    /\ (pc = "handle_event" /\ pc' # "failed") =>
          (cloud' = Append(cloud, Head(pending)) /\ plane = "events")

\* C10: the two planes never cross: a command batch causes no send to the cloud
\* sink and no call of the data layer, an events batch no send to the device
\* sink; the sources table routes events only, the sinks table commands only.
C10_PlanesNeverCross == [][C10_CommandPlane /\ C10_EventsPlane]_vars

\* With tables that route the update at `a` differently, an events batch and
\* then a command batch with that update have both been handled.
C10_Witness ==
    /\ pc = "select"
    /\ plane = "command_stream"
    /\ mw_config.sources # mw_config.sinks
    /\ data_calls = 1
    /\ Len(cloud) = 1 /\ cloud[1].channel = "ch1"
    /\ Len(commands) = 1
    /\ Len(commands[1].updates) = 1
    /\ commands[1].updates[1].channel = "ch0"
    /\ commands[1].updates[1].address = <<"a">>

\* C12: when the loop finds the events stream closed, run returns Ok(()): every
\* MQTT event produced from the batches received before has been sent to the
\* cloud sink, nothing is left unsent, and once the loop has left no send to
\* the cloud sink or to the device sink happens.
C12_Closed ==
    (pc = "exited" /\ plane = "events") => (cloud = produced /\ pending = <<>>)

C12_NoSendAfterExit == pc = "exited" => (cloud' = cloud /\ commands' = commands /\ pc' = pc)

C12_CleanExitOnEventsClosed == [](C12_Closed) /\ [][C12_NoSendAfterExit]_vars

\* Two events batches, one of them giving an MQTT event, were received and
\* forwarded before the events stream was found closed.
C12_Witness ==
    /\ pc = "exited" /\ plane = "events"
    /\ data_calls = 2
    /\ Len(cloud) >= 1
    /\ cloud = produced

HandlesCommand == pc = "handle_command" /\ pc' # "failed"

\* C18: a batch taken from the command stream gives one Event for the device
\* sink, holding the updates of the batch that survive the sinks table, routed
\* and in their order (an Event with no update when none survives); the device
\* sink receives that Event and nothing else.
C18_Step ==
    /\ TakesCommand =>
          pending' = <<Event(ExpectedRouted(mw_config.sinks, batch'))>>
    /\ HandlesCommand =>
          /\ commands' = Append(commands, Event(ExpectedRouted(mw_config.sinks, batch)))
          /\ pc' = "select"
    /\ ~HandlesCommand => commands' = commands

C18_OneEventPerCommand == [][C18_Step]_vars

\* Two command batches were handled: one with a surviving update, and one of
\* two updates that were both dropped, sent as an Event without updates.
C18_Witness ==
    /\ pc = "select"
    /\ Len(commands) = 2
    /\ Len(commands[1].updates) = 1
    /\ Len(batch) = 2
    /\ commands[2] = Event(<<>>)

(***************************************************************************)
(* MQTT adapter claims                                                     *)
(***************************************************************************)
MqttEnded == mq_pc \in {"ended", "failed"}

\* C14: a poll error never ends the task, and while the event stream is open
\* the adapter keeps polling and hands every event its sink accepted to
\* client.publish: once the sink holds the whole burst, every event of it is
\* eventually taken for its publish call, unless a publish call failed.
C14_AcceptedEventsReachPublish ==
    (Len(cloud) = Len(Burst)) ~> (taken = Len(Burst) \/ mq_pc = "failed")

C15_Step ==
    (~MqttEnded /\ MqttEnded') =>
        \/ mq_pc = "select" /\ ~sink_open /\ taken = Len(cloud) /\ mq_pc' = "ended"
        \/ mq_pc = "publish" /\ mq_pc' = "failed"

Delivered == inbox # <<>> /\ inbox' = Tail(inbox)

\* A JSON object with a string `connection`, a `value` and a string `nodeId`.
WellFormed(payload) ==
    /\ payload.json = "object"
    /\ {"connection", "value", "nodeId"} \subseteq DOMAIN payload.fields
    /\ payload.fields["connection"].kind = "String"
    /\ payload.fields["nodeId"].kind = "String"

ExpectedCommand(publish) ==
    [updates |->
        <<[address |-> <<"cloud", "commands", publish.payload.fields["connection"].s>>,
           channel |-> publish.payload.fields["connection"].s,
           value |-> publish.payload.fields["value"],
           extensions |-> [nodeId |-> publish.payload.fields["nodeId"]]]>>]

\* C17: for an incoming Publish the adapter sends an Event on the command
\* stream exactly when the topic is `command/inbox//write` and the payload is
\* well-formed; the Event holds the one update built from the payload, and
\* the stream takes it unless its receiver is gone.  Any other Publish sends
\* nothing.  In both cases the task goes on polling.  No other step puts
\* anything on the command stream.
C17_Step ==
    /\ Delivered =>
          /\ cmd_q' = IF /\ Head(inbox).topic = "command/inbox//write"
                          /\ WellFormed(Head(inbox).payload)
                          /\ cmd_open
                       THEN Append(cmd_q, ExpectedCommand(Head(inbox)))
                       ELSE cmd_q
          /\ mq_loop' = "poll"
          /\ mq_pc' = "select"
    /\ ~Delivered => cmd_q' = cmd_q

C17_CommandForwarding == [][C17_Step]_vars

\* The broker delivered bytes that are no JSON and then a well-formed command
\* on the write topic: one Event is on the command stream.
C17_Witness ==
    /\ pc = "mqtt"
    /\ inbox = <<>>
    /\ cmd_open
    /\ Len(cmd_q) = 1
    /\ packet = Some(Publish(WriteTopic, GoodPayload))
    /\ mq_loop = "poll"
    /\ cmd_q[1].updates[1].address = <<"cloud", "commands", "plc">>

ConnAckDelivered == ~connected /\ connected'

\* C19: every ConnAck with session_present = false and code Success is
\* answered with one subscribe to `command/inbox//#` at QoS 0, the first and
\* every later one; no other packet is answered with a subscribe; after a
\* subscribe call has returned, failed or not, the loop polls again.
C19_Step ==
    /\ ConnAckDelivered =>
          sub_calls' =
              IF ~packet'[1].session_present /\ packet'[1].code = "Success"
              THEN Append(sub_calls,
                          [type |-> "Subscribe", topic |-> "command/inbox//#",
                           qos |-> "AtMostOnce", retain |-> FALSE,
                           payload |-> Bytes(FALSE, "", 0)])
              ELSE sub_calls
    /\ ~ConnAckDelivered => sub_calls' = sub_calls
    /\ (mq_loop = "subscribe" /\ mq_loop' # "subscribe") =>
          (mq_loop' = "poll" /\ mq_pc' = mq_pc)

C19_SubscribeOnConnAck == [][C19_Step]_vars

\* Two ConnAcks were answered with a subscribe; the first call failed, the
\* second one was queued after the loop had polled on.
C19_Witness ==
    /\ pc = "mqtt"
    /\ Len(sub_calls) = 2
    /\ taken = 0
    /\ requests = <<sub_calls[2]>>
    /\ connected
    /\ mq_loop = "poll"

\* The JSON text of the payloads the events carry.
ExpectedJson(payload) ==
    IF payload = [features |-> [a |-> JsonNumber(1)]]
    THEN "{\"features\":{\"a\":1}}"
    ELSE "{\"features\":{\"a\":12,\"b\":\"x\"}}"

\* C20: the adapter has made one publish call per event taken from its
\* stream, in the order taken: topic = the channel of the event, QoS 0, not
\* retained, carrying the JSON text of the payload, or, with a codec loaded,
\* the message the codec makes of that text at the next ratchet index.
C20_PublishPerEvent ==
    pc = "mqtt" =>
        /\ Len(pub_calls) = taken
        /\ \A i \in 1..taken :
              /\ pub_calls[i].type = "Publish"
              /\ pub_calls[i].topic = cloud[i].channel
              /\ pub_calls[i].qos = "AtMostOnce"
              /\ pub_calls[i].retain = FALSE
              /\ pub_calls[i].payload.text = ExpectedJson(cloud[i].payload)
              /\ pub_calls[i].payload.cipher = (group_session # None)
              /\ pub_calls[i].payload.index = IF group_session # None THEN i - 1 ELSE 0

\* Two events of different channels were published through a loaded codec.
C20_Witness ==
    /\ pc = "mqtt"
    /\ mq_pc = "select"
    /\ taken = 2
    /\ group_session = Some(2)
    /\ cloud[1].channel # cloud[2].channel


(***************************************************************************)
(* Command path claims.  What a delivered Publish asks for is read off the *)
(* packet itself, not off what handle_command and write_command make of    *)
(* it.                                                                     *)
(***************************************************************************)
IsNodeIdText(text) == text \in {"ns=2;s=Pump", "i=85"}

\* The Publish is a well-formed write command for connection c naming a node.
Commanded(publish, c) ==
    /\ publish.topic = "command/inbox//write"
    /\ WellFormed(publish.payload)
    /\ publish.payload.fields["connection"].s = c
    /\ IsNodeIdText(publish.payload.fields["nodeId"].s)

ExpectedVariant(value) ==
    IF value = JsonNumber(7) THEN [type |-> "UInt64", s |-> "", n |-> 7]
    ELSE IF value = JsonBool(TRUE) THEN [type |-> "Boolean", s |-> "true", n |-> 0]
    ELSE [type |-> "String", s |-> value.s, n |-> 0]

ExpectedWrite(publish) ==
    [node_id |-> IF publish.payload.fields["nodeId"].s = "i=85"
                 THEN [namespace |-> 0, type |-> "Numeric", value |-> "85"]
                 ELSE [namespace |-> 2, type |-> "String", value |-> "Pump"],
     attribute_id |-> "Value",
     value |-> ExpectedVariant(publish.payload.fields["value"])]

\* How many of the first k delivered packets ask connection c for the write w.
Asked(c, k, w) ==
    Cardinality({i \in 1..k : Commanded(delivered[i], c) /\ ExpectedWrite(delivered[i]) = w})

\* How many times the session of connection c was given the write w.
Written(c, w) == Cardinality({i \in DOMAIN writes[c] : writes[c][i] = w})

C16_NoOtherWrite ==
    mw_config.sinks = EmptyMap =>
        \A c \in Connections : \A i \in DOMAIN writes[c] :
            Written(c, writes[c][i]) <= Asked(c, Len(delivered), writes[c][i])

\* C16: with an empty sinks table, every write a session is given was asked
\* for by a delivered well-formed command naming that connection, that node
\* and that value, once per command: a malformed payload, a command for
\* another connection or one whose node id text is no node id gives no write.
\* And when the connection named runs its command loop, a delivered
\* well-formed command naming a node is followed by its write on that
\* connection's session.
C16_CommandRoundTrip ==
    /\ [](C16_NoOtherWrite)
    /\ \A c \in Connections : \A k \in 1..MaxCommands :
          (/\ mw_config.sinks = EmptyMap
           /\ conn_state[c] = "running"
           /\ Len(delivered) >= k
           /\ Commanded(delivered[k], c))
          ~> (/\ Len(delivered) >= k
              /\ Commanded(delivered[k], c)
              /\ Written(c, ExpectedWrite(delivered[k])) >= Asked(c, k, ExpectedWrite(delivered[k])))

\* A payload without `value` and then a command for `plc` were delivered; the
\* session of `plc` got the one write, the session of `plc2` none.
C16_Witness ==
    /\ mw_config.sinks = EmptyMap
    /\ conn_state = [c \in Connections |-> "running"]
    /\ Len(delivered) = 2
    /\ ~WellFormed(delivered[1].payload)
    /\ Commanded(delivered[2], "plc")
    /\ writes["plc"] = <<ExpectedWrite(delivered[2])>>
    /\ writes["plc2"] = <<>>
    /\ blocking = {}

(***************************************************************************)
(* Event path claims.  The batch a publish stems from is read off the text *)
(* published: every update of the n-th batch posted carries the value n.   *)
(***************************************************************************)
TagText == <<"1", "2", "3", "4">>

BatchTexts(n) ==
    { "{\"features\":{\"i=85\":" \o TagText[n] \o "}}",
      "{\"features\":{\"i=85\":" \o TagText[n] \o ",\"ns=2;s=Pump\":" \o TagText[n] \o "}}" }

\* The number of the batch whose values the publish call carries, 0 for none.
PublishedTag(call) ==
    IF \E n \in 1..MaxPosts : call.payload.text \in BatchTexts(n)
    THEN CHOOSE n \in 1..MaxPosts : call.payload.text \in BatchTexts(n)
    ELSE 0

\* The place of batch n among the batches the middleware has received, 0
\* when it has not received it.
ReceivedAt(n) ==
    IF \E i \in 1..ev_taken : ev_q[i].updates[1].value = JsonNumber(n)
    THEN CHOOSE i \in 1..ev_taken : ev_q[i].updates[1].value = JsonNumber(n)
    ELSE 0

\* C11: every publish call stems from a batch the middleware received, and
\* of two publish calls to the same topic the earlier one stems from the
\* batch the middleware received earlier.
C11_PublishOrderPerChannel ==
    \A q \in DOMAIN pub_calls :
        /\ PublishedTag(pub_calls[q]) # 0
        /\ ReceivedAt(PublishedTag(pub_calls[q])) # 0
        /\ \A p \in 1..(q - 1) :
              pub_calls[p].topic = pub_calls[q].topic =>
                  ReceivedAt(PublishedTag(pub_calls[p])) < ReceivedAt(PublishedTag(pub_calls[q]))

\* A batch of `plc2` and then a batch of `plc` were received, both routed to
\* the channel `plc`, and both were published to the topic `plc`.
C11_Witness ==
    /\ Len(pub_calls) = 2
    /\ pub_calls[1].topic = "plc" /\ pub_calls[2].topic = "plc"
    /\ ev_taken = 2
    /\ ev_q[1].updates[1].channel = "plc2"
    /\ ev_q[2].updates[1].channel = "plc"

C13_Step ==
    /\ ~ev_open => ~ev_open' /\ ev_q' = ev_q
    /\ \A c \in Connections :
          run_loop[c] = "running" /\ run_loop'[c] = "returned" => ~ev_open'

C13_Ended ==
    /\ pc = "exited" /\ plane = "events" => ~ev_open /\ ev_taken = Len(ev_q)
    /\ pc \in {"exited", "failed"} /\ mq_pc # "failed" => pc = "exited" /\ plane = "events"

\* C13: the return of a session run loop closes the event channel; a closed
\* channel stays closed and accepts no further batch; the middleware then
\* leaves its loop, and while the MQTT adapter has not failed it leaves it
\* by the end of the event stream only, which it sees after it has received
\* every batch the channel accepted.
C13_ChannelClosedEndsMiddleware ==
    /\ [][C13_Step]_vars
    /\ [](C13_Ended)
    /\ (~ev_open) ~> (pc \in {"exited", "failed"})

\* The session of `plc` returned while `plc2` was running; the middleware
\* received both batches the channel had accepted and left by the end of
\* the event stream, and a batch posted later was refused.
C13_Witness ==
    /\ run_loop["plc"] = "returned" /\ run_loop["plc2"] = "running"
    /\ pc = "exited" /\ plane = "events"
    /\ Len(ev_q) = 1 /\ ev_taken = 1 /\ Len(cloud) = 1
    /\ posted = 2 /\ posts = {}

\* C21: when the publish call made for an event fails, the send that put
\* that event into the event sink has reported an error: the event is not
\* one of those the sink accepted with Ok.
C21_PublishFailureSurfaced ==
    mq_pc = "failed" => taken \notin 1..Len(cloud)

(***************************************************************************)
(* C28: address parsing                                                    *)
(***************************************************************************)
\* The character at position i is taken literally because an escape
\* character that is not itself escaped stands before it.
RECURSIVE Escaped(_, _)
Escaped(s, i) == i > 1 /\ s[i - 1] = "\\" /\ ~Escaped(s, i - 1)

UnescapedSlashes(s) == {i \in 1..Len(s) : s[i] = "/" /\ ~Escaped(s, i)}

\* The positions whose character belongs to segment k: not a separator, not
\* an escaping `\`, and after exactly k - 1 separators.
SegmentPositions(s, k) ==
    {i \in 1..Len(s) :
        /\ Escaped(s, i) \/ s[i] \notin {"/", "\\"}
        /\ Cardinality({j \in UnescapedSlashes(s) : j < i}) = k - 1}

SegmentText(s, k) ==
    LET idx == SegmentPositions(s, k)
    IN  [n \in 1..Cardinality(idx) |->
            s[CHOOSE i \in idx : Cardinality({j \in idx : j <= i}) = n]]

\* C28: parsing a text always gives an address.  The empty text gives the
\* address of length zero; a non-empty text gives 1 + (number of unescaped
\* `/`) segments, each made of the characters between two separators with
\* every escaping `\` removed and the character after it kept; a text ending
\* in an unescaped `/` gives a last segment that is empty and an address
\* different from that of the text without the `/`; a lone `\` at the end
\* adds nothing to the last segment.
C28_ParseTotal ==
    pc = "text parsed" =>
        LET s == rendered
            n == Len(s)
        IN  /\ s = <<>> => parsed = <<>>
            /\ s # <<>> =>
                /\ Len(parsed) = 1 + Cardinality(UnescapedSlashes(s))
                /\ \A k \in 1..Len(parsed) : parsed[k] = SegmentText(s, k)
            /\ n \in UnescapedSlashes(s) =>
                /\ parsed[Len(parsed)] = <<>>
                /\ parsed # from_str(SubSeq(s, 1, n - 1))
            /\ (n > 1 /\ s[n] = "\\" /\ ~Escaped(s, n)) =>
                parsed = from_str(SubSeq(s, 1, n - 1))

\* A text with an escaped separator, an unescaped one at its end: two
\* segments, the last one empty.
C28_Witness ==
    /\ pc = "text parsed"
    /\ rendered = <<"\\", "/", "a", "/">>
    /\ parsed = <<<<"/", "a">>, <<>>>>

(***************************************************************************)
(* C27: which rules apply to an update                                     *)
(***************************************************************************)
\* The keys of the table that are whole-segment prefixes of the address.
Applicable(R, a) == {p \in DOMAIN R : IsPrefix(p, a)}

\* C27: the rule keyed by p is applied to an update exactly when p is the
\* first i segments of the update's address for some i from 0 to its length
\* (whole segments, so the key ["a"] does not match the address ["ab"]); the
\* root rule is applied to every update, and to an update with the empty
\* address no other rule is; the rules are applied in increasing length of
\* prefix, so the mark left last is that of the longest one.
C27_AppliedRules ==
    Routed =>
        LET a == update.address
            K == Applicable(config, a)
            e == out1[1].extensions
        IN  /\ out1 # None
            /\ \A p \in DOMAIN config :
                   (KeyName(p) \in DOMAIN e) <=> (\E i \in 0..Len(a) : p = SubSeq(a, 1, i))
            /\ <<>> \in DOMAIN config => "root" \in DOMAIN e
            /\ a = <<>> => DOMAIN e \subseteq {"root", "last"}
            /\ K # {} => e["last"] = JsonString(KeyName(Longest(K)))
            /\ K = {} => e = EmptyMap

\* The address ["ab"] under a table with the keys [], ["a"] and ["ab"]: the
\* root rule and the rule of ["ab"] are applied, that of ["a"] is not.
C27_Witness ==
    /\ pc = "routed"
    /\ update.address = <<<<"a", "b">>>>
    /\ DOMAIN config = {<<>>, <<<<"a">>>>, <<<<"a", "b">>>>}
    /\ DOMAIN out1[1].extensions = {"root", "ab", "last"}
    /\ out1[1].extensions["last"] = JsonString("ab")

(***************************************************************************)
(* C25: the reverse mapping                                                *)
(***************************************************************************)
IsIntegerNumber(v) == v.kind = "Number" /\ v.s = ""

\* The object is the written form of a library variant: one key naming the
\* variant, with a content of its type.
NamesVariant(v) ==
    /\ v.kind = "Object"
    /\ \E k \in DOMAIN v.fields :
        /\ DOMAIN v.fields = {k}
        /\ \/ k = "Int32" /\ IsIntegerNumber(v.fields[k])
           \/ k = "Byte" /\ IsIntegerNumber(v.fields[k]) /\ v.fields[k].n \in 0..255
           \/ k = "Boolean" /\ v.fields[k].kind = "Bool"

TheKey(v) == CHOOSE k \in DOMAIN v.fields : TRUE

ReferenceVariant(v) ==
    IF v.kind = "Null" THEN [type |-> "Empty", s |-> "", n |-> 0]
    ELSE IF v.kind = "Bool" THEN [type |-> "Boolean", s |-> v.s, n |-> 0]
    ELSE IF IsIntegerNumber(v) /\ v.n >= 0 THEN [type |-> "UInt64", s |-> "", n |-> v.n]
    ELSE IF IsIntegerNumber(v) THEN [type |-> "Int64", s |-> "", n |-> v.n]
    ELSE IF v.kind = "Number" THEN [type |-> "Double", s |-> v.s, n |-> 0]
    ELSE IF v.kind = "String" THEN [type |-> "String", s |-> v.s, n |-> 0]
    ELSE IF v.kind = "Array" THEN [type |-> "StatusCode", s |-> "BadDataEncodingUnsupported", n |-> 0]
    ELSE IF NamesVariant(v)
         THEN [type |-> TheKey(v), s |-> v.fields[TheKey(v)].s, n |-> v.fields[TheKey(v)].n]
    ELSE [type |-> "StatusCode", s |-> "BadDataEncodingInvalid", n |-> 0]

\* C25: into_variant gives, for every JSON value, the variant of the
\* reference: Empty for null, Boolean for a boolean, for a number UInt64 when
\* it is held as a non-negative integer, Int64 when it is held as a negative
\* integer and Double otherwise, String for a string,
\* StatusCode(BadDataEncodingUnsupported) for an array, and for an object the
\* library variant it names, StatusCode(BadDataEncodingInvalid) when it names
\* none.
C25_IntoVariantReference ==
    pc = "converted" => out1 = <<ReferenceVariant(update.value)>>

\* The object {"Int32": 100} has become Int32(100).
C25_Witness ==
    /\ pc = "converted"
    /\ update.value = JsonMap("Int32" :> JsonNumber(100))
    /\ out1 = <<[type |-> "Int32", s |-> "", n |-> 100]>>

(***************************************************************************)
(* C29, C30, C26: the dispatcher and write_command                         *)
(***************************************************************************)
\* The updates of the Event that are for connection c, in the Event's order.
UpdatesFor(event, c) == SelectSeq(event.updates, LAMBDA u : u.channel = c)

\* One log line for each update of the Event that is for a configured
\* connection whose command channel has lost its receiver.
FailedHandOvers(event) ==
    LET failed == SelectSeq(event.updates,
                            LAMBDA u : u.channel \in Connections /\ conn_state[u.channel] = "failed")
    IN  [i \in 1..Len(failed) |-> <<failed[i].channel, "Failed to queue command">>]

C29_Step ==
    dispatched' # dispatched =>
        LET event == commands[dispatched + 1]
        IN  /\ dispatched' = dispatched + 1
            /\ DOMAIN conn_q' = Connections
            /\ \A c \in Connections :
                   conn_q'[c] = IF conn_state[c] = "running"
                                THEN conn_q[c] \o UpdatesFor(event, c)
                                ELSE conn_q[c]
            /\ log' = log \o FailedHandOvers(event)
            /\ conn_state' = conn_state

\* C29: the dispatcher queues each update of an Event on the command channel
\* of the connection its channel names and on no other, in the Event's order;
\* an update whose channel names no connection goes nowhere, an update whose
\* connection has dropped its receiver is logged, and in both cases the
\* updates after it are still handed over and the dispatcher takes the next
\* Event.
C29_DispatchByChannel ==
    /\ [][C29_Step]_vars
    /\ [](dispatched < Len(commands) => ENABLED Dispatch)

\* An Event whose first update names no connection and whose second is for
\* `plc`: the second is on the queue of `plc` and nothing is on that of `plc2`.
C29_Witness ==
    /\ dispatched = 1
    /\ Len(commands[1].updates) = 2
    /\ commands[1].updates[1].channel = "plc9"
    /\ commands[1].updates[2].channel = "plc"
    /\ conn_state["plc"] = "running"
    /\ conn_q["plc"] = <<commands[1].updates[2]>>
    /\ conn_q["plc2"] = <<>>

\* The text a command names its node with, read off the update: None when
\* there is none.
NamedNode(u) ==
    IF "nodeId" \in DOMAIN u.extensions /\ u.extensions["nodeId"].kind = "String"
    THEN <<u.extensions["nodeId"].s>>
    ELSE IF Len(u.address) > 0 THEN <<u.address[Len(u.address)]>>
    ELSE <<>>

NodeOf(text) ==
    IF text = "i=85" THEN [namespace |-> 0, type |-> "Numeric", value |-> "85"]
    ELSE [namespace |-> 2, type |-> "String", value |-> "Pump"]

\* The closure t has run: what it did to the session's writes and to the log.
C30_Ran(t) ==
    LET c == t.connection
        text == NamedNode(t.update)
    IN  /\ \A d \in Connections \ {c} : writes'[d] = writes[d]
        /\ IF text # <<>> /\ IsNodeIdText(text[1])
           THEN /\ Len(writes'[c]) = Len(writes[c]) + 1
                /\ SubSeq(writes'[c], 1, Len(writes[c])) = writes[c]
                /\ writes'[c][Len(writes'[c])].node_id = NodeOf(text[1])
                /\ writes'[c][Len(writes'[c])].attribute_id = "Value"
                /\ log' \in {log, Append(log, <<c, "Failed to write">>)}
           ELSE /\ writes'[c] = writes[c]
                /\ log' = IF text = <<>> THEN log
                          ELSE Append(log, <<c, "Failed to parse NodeId">>)

C30_Step ==
    blocking' \subseteq blocking /\ blocking' # blocking =>
        /\ \E t \in blocking : blocking' = blocking \ {t} /\ C30_Ran(t)
        /\ conn_state' = conn_state /\ run_loop' = run_loop /\ conn_q' = conn_q

\* C30: write_command writes to the node named by the extension `nodeId` when
\* that is a string and by the last segment of the address otherwise; with
\* neither, or with a text that is no node id, it issues no write.  A text
\* that does not parse and a write that fails leave a log line and nothing
\* else: the other closures stay, the command loop takes the next update and
\* the session's run loop keeps running.
C30_WriteCommandNode ==
    /\ [][C30_Step]_vars
    /\ [](\A c \in Connections :
            (conn_state[c] = "running" /\ conn_q[c] # <<>>) => ENABLED CommandLoop(c))

\* The extension's text is no node id while the last segment of the address
\* is one: no write, one log line, and the run loop runs; and an update with
\* a number for `nodeId` is written to the node of its address.
C30_Witness ==
    /\ Len(commands) = 2
    /\ Len(commands[1].updates) = 1
    /\ commands[1].updates[1].extensions = [nodeId |-> JsonString("Pump")]
    /\ commands[2].updates[1].extensions = [nodeId |-> JsonNumber(85)]
    /\ blocking = {} /\ spawned = 2
    /\ <<"plc2", "Failed to parse NodeId">> \in {log[i] : i \in DOMAIN log}
    /\ Len(writes["plc2"]) = 1
    /\ writes["plc2"][1].node_id = [namespace |-> 0, type |-> "Numeric", value |-> "85"]
    /\ run_loop["plc2"] = "running"

\* C26: a command whose value is an array, or an object that is no typed
\* variant, is dropped: no write is issued for it, so no write the session was
\* given carries the status code that into_variant makes of such a value.
C26_UnsupportedShapeDropped ==
    \A c \in DOMAIN writes : \A i \in DOMAIN writes[c] :
        writes[c][i].value.type # "StatusCode"

(***************************************************************************)
(* C22, C23: what the callbacks of a connection post.  The expected batch  *)
(* is read off the record of the call: what the configuration names and    *)
(* what the server answered.                                               *)
(***************************************************************************)
\* The text of a node id in its normal form.
NormalText(text) == IF text = "ns=0;i=85" THEN "i=85" ELSE text

LastCall == calls'[Len(calls')]

\* The batch of the task the call has spawned, and that no other task came
\* or went with it.
PostedBy(r) == (CHOOSE t \in posts' : t.id = r.post).event.updates
OnePost(r) ==
    /\ \E t \in posts' : t.id = r.post /\ posts' = posts \cup {t}
    /\ \A t \in posts : t.id # r.post

\* The positions of the items of the call whose status is not good.
NotGood(r) == SelectSeq([i \in 1..Len(r.nodes) |-> i], LAMBDA i : r.result[i] # "Good")

C22_Step ==
    (calls' # calls /\ LastCall.op = "subscribe_one") =>
        LET r == LastCall
            u == PostedBy(r)
            bad == NotGood(r)
        IN  /\ OnePost(r)
            /\ Len(u) = Len(bad)
            /\ \A k \in 1..Len(bad) :
                /\ u[k].address = <<"opcua", r.connection, "subscriptions", r.subscription,
                                    NormalText(r.nodes[bad[k]])>>
                /\ u[k].channel = r.connection
                /\ u[k].value.kind = "Object"
                /\ DOMAIN u[k].value.fields = {"subscribed", "timestamp", "status"}
                /\ u[k].value.fields["subscribed"] = [kind |-> "Bool", s |-> "false", n |-> 0]
                /\ u[k].value.fields["timestamp"].kind = "String"
                /\ u[k].value.fields["status"] = [kind |-> "String", s |-> r.result[bad[k]], n |-> 0]

\* C22: when a subscription is set up, the adapter posts one batch that holds,
\* in the order of the request, one update for each monitored item whose
\* status is not good, at opcua/<conn>/subscriptions/<sub>/<node> with channel
\* <conn> and the payload {subscribed: false, timestamp, status}, and no
\* update for an item whose status is good.
C22_SubscriptionSetup == [][C22_Step]_vars

\* Two items, the first good and the second not: the batch holds the one
\* update of the second.
C22_Witness ==
    \E i \in DOMAIN calls : \E t \in posts :
        /\ calls[i].op = "subscribe_one"
        /\ calls[i].result = <<"Good", "BadNodeIdUnknown">>
        /\ t.id = calls[i].post
        /\ Len(t.event.updates) = 1
        /\ t.event.updates[1].address = <<"opcua", "plc", "subscriptions", "s1", "ns=2;s=Pump">>
        /\ t.event.updates[1].value.fields["status"].s = "BadNodeIdUnknown"

\* The (subscription, position) pairs of the nodes configured for connection c.
ConfiguredPairs(c) ==
    UNION {{<<id, i>> : i \in DOMAIN subscriptions[c][id]} : id \in DOMAIN subscriptions[c]}

C23_Step ==
    (calls' # calls /\ LastCall.op = "session_closed") =>
        LET r == LastCall
            c == r.connection
            u == PostedBy(r)
        IN  /\ OnePost(r)
            /\ Len(u) = 1 + Cardinality(ConfiguredPairs(c))
            /\ u[1].address = <<"opcua", c, "connection">>
            /\ u[1].value.fields["connected"].s = (IF r.code = "Good" THEN "true" ELSE "false")
            /\ r.code # "Good" => u[1].value.fields["status"].s = r.code
            /\ \A k \in 1..Len(u) : u[k].channel = c
            /\ \A p \in ConfiguredPairs(c) :
                   Cardinality({k \in 2..Len(u) :
                       /\ u[k].address = <<"opcua", c, "subscriptions", p[1],
                                           NormalText(subscriptions[c][p[1]][p[2]])>>
                       /\ DOMAIN u[k].value.fields = {"subscribed", "timestamp"}
                       /\ u[k].value.fields["subscribed"].s = "false"}) = 1

\* C23: when the session calls session_closed(code), the adapter posts one
\* batch: first the connection state for that code at opcua/<conn>/connection,
\* then one update with subscribed: false for every node of every
\* subscription configured for the connection, all on channel <conn>.
C23_SessionClosedBatch == [][C23_Step]_vars

\* Two subscriptions of one node each, closed with BadConnectionClosed: a
\* batch of three updates, the first saying connected: false.
C23_Witness ==
    \E i \in DOMAIN calls : \E t \in posts :
        /\ calls[i].op = "session_closed"
        /\ calls[i].code = "BadConnectionClosed"
        /\ t.id = calls[i].post
        /\ DOMAIN subscriptions["plc"] = {"s1", "s2"}
        /\ Len(t.event.updates) = 3
        /\ t.event.updates[1].value.fields["connected"].s = "false"
        /\ t.event.updates[2].value.fields["subscribed"].s = "false"

(***************************************************************************)
(* C24: callbacks and the full event channel                               *)
(***************************************************************************)
\* How many batches the channel holds.
Held == Len(ev_q) - ev_taken

\* The places in the channel of the batch of the callback's post number id:
\* the callbacks have posted MaxPosts batches at most, and a batch goes to
\* the end of the line.
QueuedAt(id) ==
    {k \in (Len(ev_q) - MaxPosts + 1)..Len(ev_q) :
        k >= 1 /\ ev_q[k].updates # <<>> /\ ev_q[k].updates[1].value = JsonNumber(id)}

\* The middleware has taken the batch of post number id.
Taken(id) == \E k \in QueuedAt(id) : k <= ev_taken

\* A callback's step: the task is spawned, nothing of the channel is touched.
C24_Callback ==
    posted' # posted =>
        /\ ev_q' = ev_q /\ ev_taken' = ev_taken /\ parked' = parked /\ ev_open' = ev_open
        /\ \E t \in posts' : t.id = posted' /\ posts' = posts \cup {t}

\* A send task's step: its batch goes into the channel, whatever the channel
\* holds, and the task is parked when the channel then holds more than its
\* buffer; or the channel is closed, and the failure is logged and nothing
\* else happens.
C24_Send ==
    posts' # posts /\ posted' = posted =>
        \E t \in posts :
            /\ posts' = posts \ {t}
            /\ \/ /\ ev_open
                  /\ ev_q' = Append(ev_q, t.event)
                  /\ parked' = IF Held >= EvCap THEN Append(parked, t.id) ELSE parked
                  /\ log' = log
               \/ /\ ~ev_open
                  /\ ev_q' = ev_q /\ parked' = parked
                  /\ log' = Append(log, <<"", "Failed to queue updates">>)
            /\ pc' = pc /\ run_loop' = run_loop /\ ev_open' = ev_open

\* A parked send waits for the middleware: it is released by a batch taken.
C24_Released == parked' # parked /\ posts' = posts => (ev_taken' = ev_taken + 1 /\ parked' = Tail(parked))

C24_NeverBlocked ==
    \A c \in Connections :
        (run_loop[c] = "running" /\ posted < MaxPosts) => ENABLED OnDataChange(c)

\* C24: a callback returns once the send is scheduled, whatever the event
\* channel holds; a send scheduled while the channel is full puts the batch
\* in line and waits, it never drops the batch; every batch posted is taken
\* by the middleware in the end unless the channel has been closed; a send
\* that fails leaves a log line and stops nothing.
C24_CallbackNeverWaits ==
    /\ [][C24_Callback /\ C24_Send /\ C24_Released]_vars
    /\ []C24_NeverBlocked
    /\ \A id \in 1..MaxPosts : (posted >= id) ~> (Taken(id) \/ ~ev_open)

\* The channel holds more than its buffer and a send is parked, its batch in
\* line behind the thousand that filled the channel.
C24_Witness ==
    /\ Held > EvCap
    /\ parked = <<1>>
    /\ QueuedAt(1) = {EvCap + 1}
    /\ ev_open


(***************************************************************************)
(* Frame of the routing                                                    *)
(***************************************************************************)
\* C33: routing changes only the channel and the extensions of an update: a
\* surviving update keeps its address and its value, has no other field than
\* the four of an Update, and the rule table and the update handed in are
\* the same after the call, the first and the second time.
C33_Frame(before, after) ==
    after # None =>
        /\ DOMAIN after[1] = DOMAIN before
        /\ after[1].address = before.address
        /\ after[1].value = before.value

C33_Step ==
    /\ config' = config
    /\ update' = update
    /\ pc = "route" => C33_Frame(update, out1')
    /\ (pc = "routed" /\ out1 # None) => C33_Frame(out1[1], out2')

C33_RoutingFrame == [][C33_Step]_vars

\* An update came through with another channel and more extensions.
C33_Witness ==
    /\ pc = "routed twice" /\ out1 # None /\ out2 # None
    /\ out1[1].channel # update.channel
    /\ out1[1].extensions # update.extensions
    /\ Len(update.address) = MaxAddrLen


(***************************************************************************)
(* Delta mode and full-state mode                                          *)
(***************************************************************************)
ChannelsOf(out) == {out[i].channel : i \in DOMAIN out}

\* C34: fed the same batches, the two modes emit, for every batch, one event
\* for each of the same channels; the features of a delta payload are in the
\* full-state payload of the channel with the same values; and on the first
\* batch the two payloads of a channel are equal.
C34_ModesAgree ==
    pc = "emitted" =>
        /\ ChannelsOf(delta_out) = ChannelsOf(full_out)
        /\ Len(delta_out) = Len(full_out)
        /\ Len(delta_out) = Cardinality(ChannelsOf(delta_out))
        /\ \A i \in DOMAIN delta_out, j \in DOMAIN full_out :
              delta_out[i].channel = full_out[j].channel =>
                  LET d == delta_out[i].payload
                      f == full_out[j].payload
                  IN  /\ DOMAIN d = {"features"} /\ DOMAIN f = {"features"}
                      /\ DOMAIN d.features \subseteq DOMAIN f.features
                      /\ \A k \in DOMAIN d.features : d.features[k] = f.features[k]
                      /\ data_calls = 1 => d = f

\* A later batch names one feature of a channel of which the full-state layer
\* holds two: the delta payload is strictly smaller, and a second channel is
\* emitted by both.
C34_Witness ==
    /\ pc = "emitted" /\ data_calls = MaxModeCalls
    /\ Cardinality(ChannelsOf(delta_out)) = 2
    /\ \E i \in DOMAIN delta_out, j \in DOMAIN full_out :
          /\ delta_out[i].channel = full_out[j].channel
          /\ DOMAIN delta_out[i].payload.features # DOMAIN full_out[j].payload.features


(***************************************************************************)
(* One batch at a time                                                     *)
(***************************************************************************)
\* C31: the loop takes a batch, from either stream, only when every output of
\* the batch before has been sent; between two takes the only sends are the
\* outputs of the batch taken last, in their order and to the sink of its
\* plane, so the outputs of two batches are never interleaved: what the cloud
\* sink got is what the data layer returned, batch after batch.
C31_Step ==
    /\ received' # received =>
          /\ pc = "select" /\ pending = <<>>
          /\ cloud' = cloud /\ commands' = commands
    /\ cloud' # cloud =>
          /\ plane = "events" /\ pending # <<>>
          /\ cloud' = Append(cloud, Head(pending))
          /\ pending' = Tail(pending)
          /\ received' = received /\ commands' = commands
    /\ commands' # commands =>
          /\ plane = "command_stream" /\ pending # <<>>
          /\ commands' = Append(commands, Head(pending))
          /\ pending' = Tail(pending)
          /\ received' = received /\ cloud' = cloud

C31_BatchToCompletion ==
    /\ [][C31_Step]_vars
    /\ [](pc = "select" => pending = <<>>)
    /\ [](pc # "failed" =>
             cloud \o (IF pc = "handle_event" THEN pending ELSE <<>>) = produced)

\* A telemetry batch with two MQTT events went out whole, and then the Event
\* of a command batch.
C31_Witness ==
    /\ pc = "select" /\ received = 2 /\ plane = "command_stream"
    /\ Len(cloud) = 2 /\ Len(commands) = 1 /\ data_calls = 1
    /\ commands[1].updates # <<>>


(***************************************************************************)
(* Order of the writes of one connection                                   *)
(***************************************************************************)
Writes(t) == write_command(t.update) # None

\* C35: the writes of one connection are issued in the order in which its
\* command loop received the updates: when the write of a closure is issued,
\* no closure of the same connection that was spawned earlier, and writes too,
\* is still waiting.
C35_Step ==
    \A t \in blocking \ blocking' :
        Writes(t) =>
            \A s \in blocking' :
                (s.connection = t.connection /\ Writes(s)) => s.id > t.id

C35_WritesInReceptionOrder == [][C35_Step]_vars


(***************************************************************************)
(* Order of the batches of one sender                                      *)
(***************************************************************************)
\* The number of the callback that posted the batch: on_data_change gives
\* every value of its batch the number of the call.
CallOf(event) == event.updates[1].value.n

SenderOf(event) == event.updates[1].channel

\* C36: the batches posted by successive callbacks of one sender enter the
\* event channel in the order in which the callbacks were invoked: of two
\* batches of the same sender in the channel, the one posted by the earlier
\* callback comes first.
C36_BatchesInCallbackOrder ==
    \A i, j \in DOMAIN ev_q :
        (i < j /\ SenderOf(ev_q[i]) = SenderOf(ev_q[j])) => CallOf(ev_q[i]) < CallOf(ev_q[j])


(***************************************************************************)
(* The batch of the session_closed callback                                *)
(***************************************************************************)
\* The batch that the call r of on_session_closed posted begins with the
\* connection state of that call.
ClosedBatchOf(event, r) ==
    /\ event.updates # <<>>
    /\ event.updates[1] = connection_state(r.connection, now(r.time), r.code)

\* C37: the batch posted by the session_closed callback is delivered to the
\* middleware before the event stream ends: when the middleware has seen the
\* end of the event stream, it has taken the batch of every call of
\* on_session_closed.
C37_ClosedBatchDelivered ==
    (pc = "exited" /\ plane = "events") =>
        \A i \in DOMAIN calls :
            calls[i].op = "session_closed" =>
                \E k \in 1..ev_taken : ClosedBatchOf(ev_q[k], calls[i])


(***************************************************************************)
(* The connection state as the cloud is told                               *)
(***************************************************************************)
\* A connection-state update of connection c with `connected: b` was handed
\* to update_sync.
StateEmitted(c, b) ==
    \E t \in posts : \E i \in DOMAIN t.event.updates :
        /\ t.event.updates[i].address = <<"opcua", c, "connection">>
        /\ t.event.updates[i].value.fields.connected = JsonBool(b)

\* C40: when the worker of a connection has stopped after a connected:true
\* connection state was emitted for the connection, a connected:false
\* connection state was emitted for it as well.
C40_ConnectionStateMirrored ==
    \A c \in Connections :
        (run_loop[c] = "failed" /\ StateEmitted(c, TRUE)) => StateEmitted(c, FALSE)


(***************************************************************************)
(* The telemetry plane and the command plane                               *)
(***************************************************************************)
\* C38: the telemetry plane does not depend on the command plane: the loop
\* stops forwarding telemetry only because of the events plane (the events
\* stream has ended, or the cloud sink has refused an event), never because
\* the command stream has closed or the device sink does not take a command.
C38_TelemetryIndependent ==
    pc \in {"exited", "failed"} => plane = "events"


(***************************************************************************)
(* Connections as failure domains                                          *)
(***************************************************************************)
\* C39: connections are independent failure domains: whatever has happened
\* to the run loop of another connection, the batch of a connection whose
\* session is still running goes into the event channel when its send is
\* polled, and so reaches the middleware.
C39_Step ==
    \A t \in posts \ posts' :
        run_loop[SenderOf(t.event)] = "running" => ev_q' = Append(ev_q, t.event)

C39_IndependentConnections == [][C39_Step]_vars


(***************************************************************************)
(* The shutdown cascade                                                    *)
(***************************************************************************)
\* C32: after the middleware has dropped its sinks the tasks behind them
\* eventually terminate; the first of them is the MQTT adapter task, which
\* holds the other end of the cloud sink: once the cloud sink is dropped, the
\* adapter task eventually ends.
C32_ShutdownCascade == (~sink_open) ~> MqttEnded

====
